---- MODULE Spec2Model ----
(***************************************************************************)
(* FTP RTU downloader: downloader.py (connection, directory resolution,    *)
(* transfer, orchestration) and the ServerController of main.py (one       *)
(* worker thread per start, pause / resume / cancel signals).              *)
(*                                                                         *)
(* Threads are the threads that run downloader code: the worker threads a  *)
(* ServerController spawns, and a caller that invokes the downloader       *)
(* functions directly.  Every step of a thread is one access to shared     *)
(* state (a signal, the running flag, the local file system), followed by  *)
(* the thread's own code, its FTP session included, up to the next access. *)
(***************************************************************************)
EXTENDS Integers, Sequences, FiniteSets, TLC

VARIABLES
    th,       \* thread -> the thread's locals (a record, see Blank)
    ctl,      \* server -> ServerController fields: running, pause, cancel
    fs,       \* local path of an existing file -> its content, a sequence of chunks
    gcancel,  \* downloader._cancel_global
    hist      \* results of the finished direct invocations, oldest first, the
              \* number of threads started, the scheduled job, and the
              \* scheduler of the application with its loop threads, and
              \* the servers, controller objects and registry of the
              \* application

vars == <<th, ctl, fs, gcancel, hist>>

-----------------------------------------------------------------------------
(* Bounds of the model. *)

\* most start_download calls that are accepted per controller
MaxStarts == 2

(* Program constants. *)

\* ftp_connect(..., retries: int = 3, ...)
DefaultRetries == 3

-----------------------------------------------------------------------------
(* Strings are sequences of characters, so that prefix, suffix and case   *)
(* conversion are computed, not assumed.                                   *)

UpperToLower ==
    [c \in {"A","B","C","D","E","F","G","H","I","J","K","L","M","N","O","P","Q",
            "R","S","T","U","V","W","X","Y","Z"} |->
        CASE c = "A" -> "a" [] c = "B" -> "b" [] c = "C" -> "c" [] c = "D" -> "d"
          [] c = "E" -> "e" [] c = "F" -> "f" [] c = "G" -> "g" [] c = "H" -> "h"
          [] c = "I" -> "i" [] c = "J" -> "j" [] c = "K" -> "k" [] c = "L" -> "l"
          [] c = "M" -> "m" [] c = "N" -> "n" [] c = "O" -> "o" [] c = "P" -> "p"
          [] c = "Q" -> "q" [] c = "R" -> "r" [] c = "S" -> "s" [] c = "T" -> "t"
          [] c = "U" -> "u" [] c = "V" -> "v" [] c = "W" -> "w" [] c = "X" -> "x"
          [] c = "Y" -> "y" [] c = "Z" -> "z"]

\* str.lower(), character by character
Lower(s) == [i \in 1..Len(s) |-> IF s[i] \in DOMAIN UpperToLower THEN UpperToLower[s[i]] ELSE s[i]]

\* str.startswith
StartsWith(s, p) == Len(p) <= Len(s) /\ SubSeq(s, 1, Len(p)) = p

\* str.endswith
EndsWith(s, p) == Len(p) <= Len(s) /\ SubSeq(s, Len(s) - Len(p) + 1, Len(s)) = p

DotTxt == <<".", "t", "x", "t">>

\* a match that compares the extension as it is written
matches_exact_case(filename, station_code) ==
    EndsWith(filename, DotTxt) /\ StartsWith(filename, station_code)

\* downloader.matches_station_file
matches_station_file(filename, station_code) ==
    IF ~EndsWith(Lower(filename), DotTxt) THEN FALSE
    ELSE StartsWith(filename, station_code)

\* the position after the last "/" of s (0 when there is none)
RECURSIVE LastSlash(_, _)
LastSlash(s, i) == IF i = 0 THEN 0 ELSE IF s[i] = "/" THEN i ELSE LastSlash(s, i - 1)

\* os.path.basename
Basename(s) == SubSeq(s, LastSlash(s, Len(s)) + 1, Len(s))

-----------------------------------------------------------------------------
(* Calendar dates are <<year, month, day>>. *)

IsLeap(y) == (y % 4 = 0 /\ y % 100 # 0) \/ y % 400 = 0

DaysInMonth(y, m) ==
    IF m = 2 THEN (IF IsLeap(y) THEN 29 ELSE 28)
    ELSE IF m \in {4, 6, 9, 11} THEN 30 ELSE 31

\* date + timedelta(days=1)
NextDay(d) ==
    IF d[3] < DaysInMonth(d[1], d[2]) THEN <<d[1], d[2], d[3] + 1>>
    ELSE IF d[2] < 12 THEN <<d[1], d[2] + 1, 1>>
    ELSE <<d[1] + 1, 1, 1>>

\* a "yesterday" that is today
SameDay(d) == d

\* date - timedelta(days=1)
PrevDay(d) ==
    IF d[3] > 1 THEN <<d[1], d[2], d[3] - 1>>
    ELSE IF d[2] > 1 THEN <<d[1], d[2] - 1, DaysInMonth(d[1], d[2] - 1)>>
    ELSE <<d[1] - 1, 12, 31>>

\* date <= date
DateLE(a, b) ==
    \/ a[1] < b[1]
    \/ a[1] = b[1] /\ a[2] < b[2]
    \/ a[1] = b[1] /\ a[2] = b[2] /\ a[3] <= b[3]

-----------------------------------------------------------------------------
(* Remote paths. *)

DigitChar(k) == <<"0", "1", "2", "3", "4", "5", "6", "7", "8", "9">>[k + 1]

\* strftime of a number, zero-padded to `width` digits
RECURSIVE Digits(_, _)
Digits(n, width) ==
    IF width = 0 THEN <<>> ELSE Digits(n \div 10, width - 1) \o <<DigitChar(n % 10)>>

\* str.rstrip("/")
RECURSIVE RStripSlash(_)
RStripSlash(s) ==
    IF Len(s) > 0 /\ s[Len(s)] = "/" THEN RStripSlash(SubSeq(s, 1, Len(s) - 1)) ELSE s

\* "return unique preserving order"
RECURSIVE Unique(_, _)
Unique(alt, out) ==
    IF alt = <<>> THEN out
    ELSE IF \E i \in 1..Len(out) : out[i] = Head(alt) THEN Unique(Tail(alt), out)
    ELSE Unique(Tail(alt), Append(out, Head(alt)))

\* candidates that are ordered by variant: each directory with and without
\* its trailing slash, one variant after the other
build_paths_by_variant(base_path, date_obj) ==
    LET yyyy == Digits(date_obj[1], 4)
        mm == Digits(date_obj[2], 2)
        dd == Digits(date_obj[3], 2)
        base == RStripSlash(base_path)
        p1 == base \o <<"/">> \o yyyy \o <<"/">> \o mm \o <<"/">> \o dd
        p2 == base \o <<"/">> \o yyyy \o <<"/">> \o mm \o <<"/">> \o dd \o mm \o yyyy
    IN <<p1 \o <<"/">>, p1, p2 \o <<"/">>, p2>>

\* downloader.build_possible_paths
build_possible_paths(base_path, date_obj) ==
    LET yyyy == Digits(date_obj[1], 4)
        mm == Digits(date_obj[2], 2)
        dd == Digits(date_obj[3], 2)
        ddmmyyyy == dd \o mm \o yyyy
        base == RStripSlash(base_path)
        p1 == base \o <<"/">> \o yyyy \o <<"/">> \o mm \o <<"/">> \o dd \o <<"/">>
        p2 == base \o <<"/">> \o yyyy \o <<"/">> \o mm \o <<"/">> \o ddmmyyyy \o <<"/">>
        alt == <<p1, p2, RStripSlash(p1), RStripSlash(p2)>>
    IN CHOOSE out \in {Unique(a, <<>>) : a \in {alt}} : TRUE

-----------------------------------------------------------------------------
(* The window of an invocation. *)

\* "while cur <= end_dt_day: append(cur); cur += step" in minutes of the day
RECURSIVE DayTimes(_, _, _)
DayTimes(cur, end_min, step) ==
    IF cur <= end_min THEN <<cur>> \o DayTimes(cur + step, end_min, step) ELSE <<>>

\* wanted_dt_list: <<date, minute of the day>> for every day of the window
RECURSIVE WantedFrom(_, _, _)
WantedFrom(cur_day, end_day, par) ==
    IF DateLE(cur_day, end_day)
    THEN LET times == DayTimes(par.start_hour * 60 + par.start_min,
                               par.end_hour * 60 + par.end_min, par.step_minutes)
         IN [i \in 1..Len(times) |-> <<cur_day, times[i]>>]
            \o WantedFrom(NextDay(cur_day), end_day, par)
    ELSE <<>>

-----------------------------------------------------------------------------
(* String literals. *)

\* "RTU12"
RTU12S == <<"R", "T", "U", "1", "2">>

\* "ABC"
ABCS == <<"A", "B", "C">>

\* "RTU12_0600.txt"
F0600 == <<"R", "T", "U", "1", "2", "_", "0", "6", "0", "0", ".", "t", "x", "t">>

\* "other.txt"
FOTHER == <<"o", "t", "h", "e", "r", ".", "t", "x", "t">>

\* "RTU12.TXT"
FUPPER == <<"R", "T", "U", "1", "2", ".", "T", "X", "T">>

\* "abcfile.txt"
FABC == <<"a", "b", "c", "f", "i", "l", "e", ".", "t", "x", "t">>

\* "01102023/RTU12_1200.txt"
FPREFIXED == <<"0", "1", "1", "0", "2", "0", "2", "3", "/", "R", "T", "U", "1", "2", "_", "1", "2", "0", "0", ".", "t", "x", "t">>

\* "RTU12_1200.txt"
F1200 == <<"R", "T", "U", "1", "2", "_", "1", "2", "0", "0", ".", "t", "x", "t">>

\* "downloads"
DOWNLOADS == <<"d", "o", "w", "n", "l", "o", "a", "d", "s">>

\* "Perak"
PERAK == <<"P", "e", "r", "a", "k">>

\* "Kedah"
KEDAH == <<"K", "e", "d", "a", "h">>

\* "/data"
SLASHDATA == <<"/", "d", "a", "t", "a">>

-----------------------------------------------------------------------------
(* The world of the model: one FTP server tree, the stations and the local *)
(* folder of the configuration.  Strings that a state holds are held as    *)
(* their position in Str.                                                  *)

Str == <<
    RTU12S,      \* 1  station id
    ABCS,        \* 2  station id
    F0600,       \* 3
    FOTHER,      \* 4
    FUPPER,      \* 5
    FABC,        \* 6
    FPREFIXED,   \* 7  NLST answers with a directory prefix
    F1200,       \* 8
    DOWNLOADS,   \* 9  local base folder
    PERAK,       \* 10 state label
    KEDAH        \* 11 state label
    >>

IdOf(s) == CHOOSE i \in DOMAIN Str : Str[i] = s

\* the remote base directory of the server configuration ("remote")
RemoteBase == SLASHDATA

D1 == <<2023, 9, 30>>
D2 == <<2023, 10, 1>>
D3 == <<2023, 10, 2>>

\* the directories of the server, without trailing slash: D1 is published as
\* base/yyyy/mm/dd, D2 as base/yyyy/mm/ddmmyyyy, D3 is not published
DirD1 == build_possible_paths(RemoteBase, D1)[3]
DirD2 == build_possible_paths(RemoteBase, D2)[4]
ServerDirs == {DirD1, DirD2}

\* the names NLST answers for a directory of the server
ServerListing(dir) ==
    IF dir = DirD1 THEN <<3, 4, 5>>
    ELSE IF dir = DirD2 THEN <<7, 6>>
    ELSE <<>>

\* most chunks of a remote file
MaxChunks == 2

\* the number of chunks RETR delivers for a file (by base name)
ChunksOf(f) == IF f = 8 THEN MaxChunks ELSE 1

\* the content of a complete local copy of a file
FullData(f) == [i \in 1..ChunksOf(f) |-> i]

\* what the dry run writes: "TEST-DUMMY for <name>"
DummyData == <<-1>>

\* the directory the session is in after login
LoginDir == <<"/">>

\* the directory the server resolves `path` to from working directory `cwd`
ServerResolve(cwd, path) ==
    LET full == IF StartsWith(path, <<"/">>) THEN path
                ELSE RStripSlash(cwd) \o <<"/">> \o path
        n == RStripSlash(full)
    IN IF n = <<>> THEN <<"/">> ELSE n

\* the server accepts CWD path
ServerHasDir(cwd, path) == ServerResolve(cwd, path) \in ServerDirs

\* the server can send the file RETR names
ServerHasFile(cwd, rfile) ==
    LET full == ServerResolve(cwd, rfile)
        k == LastSlash(full, Len(full))
        dir == IF k <= 1 THEN <<"/">> ELSE SubSeq(full, 1, k - 1)
    IN /\ dir \in ServerDirs
       /\ \E i \in 1..Len(ServerListing(dir)) :
              Basename(Str[ServerListing(dir)[i]]) = Basename(full)

\* os.path.join(local_base, state, station_id, yyyy, mm, dd, base_fname)
LocalPath(local_base, state, station_id, date, base_fname) ==
    [base |-> local_base, state |-> state, station |-> station_id, date |-> date,
     fname |-> base_fname]

-----------------------------------------------------------------------------
(* Inputs. *)

IsDigit(c) == c \in {"0", "1", "2", "3", "4", "5", "6", "7", "8", "9"}

DigitVal(c) == CHOOSE k \in 0..9 : DigitChar(k) = c

RECURSIVE DigitsValue(_)
DigitsValue(s) ==
    IF s = <<>> THEN 0 ELSE 10 * DigitsValue(SubSeq(s, 1, Len(s) - 1)) + DigitVal(s[Len(s)])

\* int(s) of a string: -1 stands for ValueError
ParseInt(s) ==
    IF s = <<>> \/ \E i \in 1..Len(s) : ~IsDigit(s[i]) THEN -1 ELSE DigitsValue(s)

\* s[a:b]
Slice(s, a, b) == SubSeq(s, a + 1, IF b < Len(s) THEN b ELSE Len(s))

\* a decoding that puts every year into the 1900s
ParseSingleTs1900(single_ts) ==
    LET yy == ParseInt(Slice(single_ts, 0, 2))
        m == ParseInt(Slice(single_ts, 2, 4))
        d == ParseInt(Slice(single_ts, 4, 6))
    IN [ok |-> TRUE, date |-> <<1900 + yy, m, d>>,
        minute |-> ParseInt(Slice(single_ts, 6, 8)) * 60 + ParseInt(Slice(single_ts, 8, 10))]

\* the try block of _worker that decodes single_ts (YYMMDDHHMM)
ParseSingleTs(single_ts) ==
    LET yy == ParseInt(Slice(single_ts, 0, 2))
        year == IF yy < 90 THEN 2000 + yy ELSE 1900 + yy
        m == ParseInt(Slice(single_ts, 2, 4))
        d == ParseInt(Slice(single_ts, 4, 6))
        H == ParseInt(Slice(single_ts, 6, 8))
        M == ParseInt(Slice(single_ts, 8, 10))
        ok == /\ yy >= 0 /\ m >= 1 /\ m <= 12 /\ d >= 1 /\ H >= 0 /\ H <= 23
              /\ M >= 0 /\ M <= 59
              /\ d <= DaysInMonth(year, m)
    IN IF ok THEN [ok |-> TRUE, date |-> <<year, m, d>>, minute |-> H * 60 + M]
       ELSE [ok |-> FALSE, date |-> <<0, 0, 0>>, minute |-> 0]

\* the params _build_params_for_server and _scheduled_job pass, with a step
\* that keeps the list of datetimes of a day short
BasePar ==
    [start_dt |-> D2, end_dt |-> D2,
     start_hour |-> 0, start_min |-> 0, end_hour |-> 23, end_min |-> 55,
     step_minutes |-> 720,
     local_folder |-> 9, state |-> 10, single_ts |-> <<>>, test_mode |-> FALSE,
     remote_dir_base |-> RemoteBase]

\* "21"
PortOk == <<"2", "1">>

\* "abc"
PortBad == <<"a", "b", "c">>

\* 2023-10-01 12:30
TsValid == <<"2", "3", "1", "0", "0", "1", "1", "2", "3", "0">>

\* month 13
TsBad == <<"2", "3", "1", "3", "0", "1", "1", "2", "3", "0">>

\* what start_download is called with: the stations, the params and the
\* port of the controller's cfg at that moment
WorkerInputs ==
    { [stations |-> <<1, 2>>, par |-> BasePar, port |-> PortOk],
      [stations |-> <<1>>, par |-> [BasePar EXCEPT !.single_ts = TsBad], port |-> PortOk],
      [stations |-> <<1>>, par |-> BasePar, port |-> PortBad] }

\* what a direct caller passes to download_files_by_prefix
PrefixInputs ==
    { [station |-> 1, par |-> [BasePar EXCEPT !.start_dt = D1, !.end_dt = D3]],
      [station |-> 1, par |-> [BasePar EXCEPT !.start_dt = D1, !.end_dt = D2,
                                              !.test_mode = TRUE]],
      [station |-> 1, par |-> [BasePar EXCEPT !.start_dt = D2, !.end_dt = D1]],
      \* a daily window from 23:00 to 01:00
      [station |-> 1, par |-> [BasePar EXCEPT !.start_hour = 23, !.end_hour = 1,
                                              !.end_min = 0]],
      \* a base path that does not start at the root: "data"
      [station |-> 1, par |-> [BasePar EXCEPT !.start_dt = D1, !.end_dt = D2,
                                              !.remote_dir_base = Tail(RemoteBase)]],
      \* a caller that passes 24 for the first hour of the day
      [station |-> 1, par |-> [BasePar EXCEPT !.start_hour = 24]] }

-----------------------------------------------------------------------------
(* State. *)

Threads == {"t1", "t2"}

Servers == {"A", "B"}

NoDate == <<0, 0, 0>>

NoPath == LocalPath(0, 0, 0, NoDate, 0)

\* the locals of a thread that runs nothing
Blank ==
    [pc |-> "idle", mode |-> "none", srv |-> "A",
     \* _worker
     stations |-> <<>>, par |-> BasePar, port |-> <<>>, si |-> 0,
     total_downloaded |-> 0, total_failed |-> 0,
     outcome |-> "none", escaped |-> FALSE, sawCancel |-> FALSE,
     \* download_files_by_prefix / download_single_by_path
     station |-> 0, start_dt |-> NoDate, end_dt |-> NoDate, attempt |-> 0,
     sess |-> FALSE, rcwd |-> <<>>, di |-> 0, dates_seen |-> {}, dt |-> NoDate,
     remote_path |-> <<>>, files |-> <<>>, fi |-> 0,
     downloaded |-> <<>>, failed |-> <<>>,
     \* download_file_with_progress
     remote_file |-> <<>>, local_path |-> NoPath, open |-> FALSE, orphan |-> FALSE,
     received |-> 0, ok |-> FALSE, rmFailed |-> FALSE,
     \* read by the properties only: the matching files the loop came to, the
     \* directory resolutions and the transfers this thread started
     reached |-> <<>>, nres |-> 0, nxfer |-> 0,
     \* read by the properties only: the transfer slept in the pause loop
     waited |-> FALSE,
     \* read by the properties only: what raised into the except branch of
     \* _worker
     failedAt |-> "none"]

\* a ServerController after __init__
NewController ==
    [running |-> FALSE, pause |-> FALSE, cancel |-> FALSE]

\* a file some earlier session left in the local folder
OldFile == LocalPath(9, 10, 1, D1, 5)

EmptyFs == [p \in {} |-> <<>>]

Me(t) == th[t]

\* the thread slot a new thread gets
FreeSlots == {t \in Threads : th[t].pc \in {"idle", "done", "dead"}}

FirstFree == CHOOSE t \in FreeSlots : \A u \in FreeSlots : t = "t1" \/ u # "t1"

\* a check that reads the per-run signal only
CancelledPerRunOnly(t) == ctl[th[t].srv].cancel

\* a check that reads the process-wide flag only
CancelledFlagOnly(t) == gcancel

\* the per-run cancel signal or the process-wide flag, as the downloader reads them
Cancelled(t) == ctl[th[t].srv].cancel \/ gcancel

\* a list of datetimes that runs from the last one to the first
WantedBackwards(r) ==
    LET w == WantedFrom(r.start_dt, r.end_dt, r.par)
    IN [i \in 1..Len(w) |-> w[Len(w) + 1 - i]]

\* wanted_dt_list of the invocation with locals r
Wanted(r) == WantedFrom(r.start_dt, r.end_dt, r.par)

\* lines 220-221: datetime(...) takes an hour of 0..23 and a minute of 0..59
\* and raises ValueError for anything else
ValidClock(par) ==
    /\ par.start_hour \in 0..23 /\ par.start_min \in 0..59
    /\ par.end_hour \in 0..23 /\ par.end_min \in 0..59

\* the locals of download_files_by_prefix and below, as they are before a call
ClearCall(r) ==
    [r EXCEPT !.station = 0, !.start_dt = NoDate, !.end_dt = NoDate, !.attempt = 0,
              !.sess = FALSE, !.rcwd = <<>>, !.di = 0, !.dates_seen = {}, !.dt = NoDate,
              !.remote_path = <<>>, !.files = <<>>, !.fi = 0,
              !.downloaded = <<>>, !.failed = <<>>,
              !.remote_file = <<>>, !.local_path = NoPath, !.open = FALSE,
              !.orphan = FALSE, !.received = 0, !.ok = FALSE, !.rmFailed = FALSE,
              !.reached = <<>>, !.waited = FALSE]

\* FTPDownloaderApp.__init__, lines 171-173, with the default settings:
\* no scheduler thread, the stop event clear, auto-midnight off.  loops[i] is
\* the place of the i-th loop thread created and jobs the number of jobs the
\* schedule library holds; last is the scheduler call that returned last,
\* read by the properties only
NoSched ==
    [auto_midnight_enabled |-> FALSE, stop_event |-> FALSE, scheduler_thread |-> 0,
     loops |-> <<>>, jobs |-> 0, last |-> "none"]

\* FTPDownloaderApp.__init__, lines 168-169, without a settings file: no
\* server, no controller object, an empty registry.  servers is the list of
\* servers, objs the ServerController objects ever created, controllers the
\* registry: position in servers -> object
NoReg == [servers |-> <<>>, objs |-> <<>>, controllers |-> <<>>]

\* no function is being applied
NoCall == [fn |-> "none", args |-> <<>>, done |-> FALSE, out |-> <<>>]

NoJob ==
    [pc |-> "idle", idx |-> 0, today |-> NoDate, yesterday |-> NoDate,
     cfg |-> [s \in Servers |-> <<>>], log |-> <<>>, aborted |-> FALSE]

\* the file system with `data` at path p
FsPut(f, p, data) == [q \in DOMAIN f \cup {p} |-> IF q = p THEN data ELSE f[q]]

\* the file system without path p
FsRemove(f, p) == [q \in DOMAIN f \ {p} |-> f[q]]

\* file content after writing chunk v at chunk offset pos - 1 (a gap reads as 0)
WriteAt(data, pos, v) ==
    [i \in 1..(IF Len(data) > pos THEN Len(data) ELSE pos) |->
        IF i = pos THEN v ELSE IF i <= Len(data) THEN data[i] ELSE 0]

Init ==
    /\ th = [t \in Threads |-> Blank]
    /\ ctl = [s \in Servers |-> NewController]
    /\ fs = FsPut(EmptyFs, OldFile, FullData(5))
    /\ gcancel = FALSE
    /\ hist = [runs |-> <<>>, starts |-> 0, job |-> NoJob, call |-> NoCall,
               sched |-> NoSched, reg |-> NoReg]

-----------------------------------------------------------------------------
(* ServerController: the calls of the user interface and the scheduler. *)

\* start_download, lines 68-69: both signals are cleared
ClearSignals(s) == [ctl EXCEPT ![s].pause = FALSE, ![s].cancel = FALSE]

\* start_download, lines 70-72: the worker thread is created and started
Spawn(s, inp) ==
    [t \in Threads |->
        IF t = FirstFree
        THEN [Blank EXCEPT !.pc = "spawned", !.mode = "worker", !.srv = s,
                           !.stations = inp.stations, !.par = inp.par,
                           !.port = inp.port]
        ELSE th[t]]

\* ServerController.start_download
StartDownload(s, inp) ==
    IF ctl[s].running
    THEN UNCHANGED vars
    ELSE /\ hist.starts < MaxStarts
         /\ FreeSlots # {}
         /\ ctl' = ClearSignals(s)
         /\ th' = Spawn(s, inp)
         /\ hist' = [hist EXCEPT !.starts = @ + 1]
         /\ UNCHANGED <<fs, gcancel>>

\* ServerController.pause
Pause(s) ==
    /\ ctl' = [ctl EXCEPT ![s].pause = TRUE]
    /\ UNCHANGED <<th, fs, gcancel, hist>>

\* ServerController.resume
Resume(s) ==
    /\ ctl' = [ctl EXCEPT ![s].pause = FALSE]
    /\ UNCHANGED <<th, fs, gcancel, hist>>

\* ServerController.cancel
Cancel(s) ==
    /\ ctl' = [ctl EXCEPT ![s].cancel = TRUE]
    /\ UNCHANGED <<th, fs, gcancel, hist>>

\* downloader.set_global_cancel
set_global_cancel(val) ==
    /\ gcancel' = val
    /\ UNCHANGED <<th, ctl, fs, hist>>

-----------------------------------------------------------------------------
(* Thread-local code.  Each operator takes the locals r of a thread that   *)
(* is at the named place and gives the set of locals the code can leave;   *)
(* the choice is the network's, the server's or a callback's.              *)

\* downloader.ftp_connect, one pass of the retry loop, and lines 217-234 of
\* download_files_by_prefix that follow its return
ftp_connect(r) ==
    {IF r.mode # "single" /\ DateLE(r.start_dt, r.end_dt) /\ ~ValidClock(r.par)
     THEN \* the window cannot be built: ValueError leaves the function
          IF r.mode = "worker"
          THEN [ClearCall(r) EXCEPT !.pc = "w_except", !.failedAt = "window"]
          ELSE [r EXCEPT !.sess = TRUE, !.rcwd = LoginDir, !.attempt = 0,
                         !.pc = "raised"]
     ELSE [r EXCEPT !.sess = TRUE, !.rcwd = LoginDir, !.di = 1, !.attempt = 0,
               !.pc = IF r.mode = "single" THEN "xfer_open"
                      ELSE IF Wanted(r) = <<>> THEN "quit"
                      ELSE "day_loop"]}
    \cup
    {IF r.attempt < DefaultRetries
     THEN [r EXCEPT !.attempt = @ + 1]
     ELSE IF r.mode = "worker"
     THEN [ClearCall(r) EXCEPT !.pc = "w_except", !.failedAt = "connect"]
     ELSE [r EXCEPT !.pc = "raised", !.attempt = 0]}

\* lines 29-39 of ftp_connect from attempt number `attempt` on: net[k] is
\* what the k-th attempt meets, 0 for a login that succeeds and the error it
\* raises otherwise; st.log lists the attempts and the sleeps in their order
RECURSIVE ConnectFrom(_, _, _, _, _)
ConnectFrom(attempt, retries, delay, net, st) ==
    IF attempt > retries
    THEN [st EXCEPT !.result = "ConnectionError"]
    ELSE IF net[attempt] = 0
    THEN [st EXCEPT !.result = "ftp", !.log = Append(@, <<"attempt", attempt>>)]
    ELSE ConnectFrom(attempt + 1, retries, delay, net,
                     [st EXCEPT !.last_exc = net[attempt],
                                !.log = @ \o <<<<"attempt", attempt>>, <<"sleep", delay>>>>])

\* downloader.ftp_connect as a function of what the network does: what it
\* returns or raises, the error the ConnectionError carries (0 for None),
\* and what it did
ftp_connect_run(retries, delay, net) ==
    ConnectFrom(1, retries, delay, net, [result |-> "none", last_exc |-> 0, log |-> <<>>])

\* lines 156-166 of find_existing_remote_path from candidate i on: `up` are
\* the candidates whose CWD command gets through, pwdOk tells whether the
\* PWD that follows an accepted CWD answers; found is the index of the
\* candidate returned (0: None), probes the candidates CWD was sent for
RECURSIVE FindFrom(_, _, _, _, _, _)
FindFrom(i, cwd, cands, up, pwdOk, probes) ==
    IF i > Len(cands) THEN [found |-> 0, probes |-> probes, pwd |-> <<>>]
    ELSE IF i \in up /\ ServerHasDir(cwd, cands[i])
    THEN [found |-> i, probes |-> Append(probes, i),
          pwd |-> IF pwdOk THEN ServerResolve(cwd, cands[i]) ELSE <<>>]
    ELSE FindFrom(i + 1, cwd, cands, up, pwdOk, Append(probes, i))

\* a search that passes over a candidate whose PWD fails
find_path_pwd_checked(cwd, cands, up, pwdOk) ==
    IF pwdOk THEN FindFrom(1, cwd, cands, up, pwdOk, <<>>)
    ELSE [found |-> 0, probes |-> [i \in 1..Len(cands) |-> i], pwd |-> <<>>]

\* downloader.find_existing_remote_path: the first candidate whose CWD is
\* accepted
find_existing_remote_path(cwd, cands, up, pwdOk) == FindFrom(1, cwd, cands, up, pwdOk, <<>>)

\* a resolution that lets the failure out of the function
ResolveToRaises(r, cands, k) ==
    IF k = 0
    THEN [r EXCEPT !.pc = "raised"]
    ELSE [r EXCEPT !.pc = "list", !.remote_path = cands[k],
                   !.rcwd = ServerResolve(r.rcwd, cands[k])]

\* lines 247-251: the folder of the day is looked for and was candidate k
\* of cands (0: none)
ResolveTo(r, cands, k) ==
    IF k = 0
    THEN [r EXCEPT !.pc = "day_loop", !.di = @ + 1]
    ELSE [r EXCEPT !.pc = "list", !.remote_path = cands[k],
                   !.rcwd = ServerResolve(r.rcwd, cands[k])]

\* lines 247-251, for every set of candidates whose CWD command gets through
Resolve(r) ==
    UNION {
        {ResolveTo(r, cands, k)
         : k \in {find_existing_remote_path(r.rcwd, cands, up, pwdOk).found
                    : up \in SUBSET (1..4), pwdOk \in BOOLEAN}}
        : cands \in {build_possible_paths(r.par.remote_dir_base, r.dt)}}

\* lines 253-266: NLST of the path, else CWD and NLST, else no files
List(r) ==
    UNION {
        {IF nlstUp /\ dir \in ServerDirs
         THEN [r EXCEPT !.pc = "file_loop", !.fi = 1, !.files = ServerListing(dir)]
         ELSE IF cwdUp /\ dir \in ServerDirs
         THEN [r EXCEPT !.pc = "file_loop", !.fi = 1, !.rcwd = dir,
                        !.files = ServerListing(dir)]
         ELSE [r EXCEPT !.pc = "file_loop", !.fi = 1, !.files = <<>>]
         : nlstUp \in BOOLEAN, cwdUp \in BOOLEAN}
        : dir \in {ServerResolve(r.rcwd, r.remote_path)}}

\* line 118, ftp.retrbinary: the next chunk arrives, the data ends, or the
\* transfer fails
Retr(r) ==
    {IF ~netOk \/ ~ServerHasFile(r.rcwd, r.remote_file)
     THEN [r EXCEPT !.pc = "xfer_cleanup", !.open = FALSE]
     ELSE IF r.received = ChunksOf(r.local_path.fname)
     THEN [r EXCEPT !.pc = "xfer_ret", !.open = FALSE, !.ok = TRUE]
     ELSE [r EXCEPT !.pc = "xfer_cb"]
     : netOk \in BOOLEAN}

\* f"{remote_path}/{base_fname}"
RemoteId(r) == r.remote_path \o <<"/">> \o Str[r.local_path.fname]

\* result lists that take the successes only
RecordOutcomeDrops(r, ok) ==
    IF ok THEN [r EXCEPT !.downloaded = Append(@, r.local_path)] ELSE r

\* the two result lists after the transfer of a file returned `ok`
RecordOutcome(r, ok) ==
    IF ok THEN [r EXCEPT !.downloaded = Append(@, r.local_path)]
    ELSE [r EXCEPT !.failed = Append(@, RemoteId(r))]

\* lines 306-309 of download_files_by_prefix, and lines 335-339 of
\* download_single_by_path: quit and return ok
Record(r) ==
    IF r.mode = "single"
    THEN {[r EXCEPT !.pc = "returned", !.sess = FALSE]}
    ELSE {[RecordOutcome(r, r.ok) EXCEPT !.pc = "file_loop", !.fi = @ + 1]}

\* lines 314-319 (and 229-234): ftp.quit(), whose failure is swallowed, and
\* the return of the two lists
Quit(r) ==
    {[r EXCEPT !.pc = IF r.mode = "worker" THEN "st_summ" ELSE "returned",
               !.sess = FALSE]}

\* main.py lines 134-137: the totals and the station's summary
StationSummary(r) ==
    LET q == [ClearCall(r) EXCEPT !.total_downloaded = @ + Len(r.downloaded),
                                  !.total_failed = @ + Len(r.failed)]
    IN {[q EXCEPT !.pc = "st_loop", !.si = @ + 1],
        [q EXCEPT !.pc = "w_except", !.failedAt = "status"]}

\* main.py lines 139-141: the Completed status, after the station loop
WorkerCompleted(r) ==
    {[r EXCEPT !.pc = "w_finally", !.outcome = "Completed"],
     [r EXCEPT !.pc = "w_except", !.failedAt = "status"]}

\* main.py lines 142-144: the except branch; what it raises itself leaves
\* the thread
WorkerExcept(r) ==
    {[r EXCEPT !.pc = "w_finally", !.outcome = "Error"],
     [r EXCEPT !.pc = "w_finally", !.escaped = TRUE]}

\* the places where a thread is about to read or write shared state, or has
\* ended; a loop head is one while the loop has an item left, because the
\* cancel signals are read there
AtShared(r) ==
    \/ r.pc \in {"idle", "spawned", "local_check", "xfer_open", "xfer_cb", "xfer_pause",
                 "xfer_write", "xfer_cleanup", "w_finally", "done", "dead",
                 "returned", "raised"}
    \/ r.pc = "st_loop" /\ r.si <= Len(r.stations)
    \/ r.pc = "day_loop" /\ r.di <= Len(Wanted(r))
    \/ r.pc = "file_loop" /\ r.fi <= Len(r.files)

\* one piece of thread-local code
Local(r) ==
    CASE r.pc = "connect" -> ftp_connect(r)
      [] r.pc = "resolve" -> Resolve(r)
      [] r.pc = "list" -> List(r)
      [] r.pc = "xfer_recv" -> Retr(r)
      [] r.pc = "xfer_ret" -> Record(r)
      [] r.pc = "quit" -> Quit(r)
      [] r.pc = "st_summ" -> StationSummary(r)
      [] r.pc = "w_completed" -> WorkerCompleted(r)
      [] r.pc = "w_except" -> WorkerExcept(r)
      \* a loop that has no item left
      [] r.pc = "st_loop" -> {[r EXCEPT !.pc = "w_completed"]}
      [] r.pc = "day_loop" -> {[r EXCEPT !.pc = "quit"]}
      [] r.pc = "file_loop" -> {[r EXCEPT !.pc = "day_loop", !.di = @ + 1]}

\* the thread-local code from r up to the next access to shared state
RECURSIVE Settle(_)
Settle(r) == IF AtShared(r) THEN {r} ELSE UNION {Settle(q) : q \in Local(r)}

\* what a finished direct invocation leaves for its caller
RunRecord(r) ==
    [mode |-> r.mode, station |-> r.station, par |-> r.par, raised |-> (r.pc = "raised"),
     downloaded |-> r.downloaded, failed |-> r.failed, ok |-> r.ok,
     reached |-> r.reached, sawCancel |-> r.sawCancel]

\* thread t goes on from r to its next access to shared state; the result of
\* a direct invocation that ends on the way is kept (r0 is r, evaluated once)
GoFrom(others, t, r) ==
    \E r0 \in {r} : \E q \in Settle(r0) :
        /\ th' = [others EXCEPT ![t] = q]
        /\ hist' = IF q.pc \in {"returned", "raised"}
                   THEN [hist EXCEPT !.runs = Append(@, RunRecord(q))]
                   ELSE hist

Go(t, r) == GoFrom(th, t, r)

-----------------------------------------------------------------------------
(* ServerController._worker: the steps that touch the controller. *)

\* lines 76-83: running = True, the cfg is read, the start is logged; nothing
\* of this is inside the try
WorkerBegin(t) ==
    LET me == Me(t) IN
    /\ me.pc = "spawned"
    /\ ctl' = [ctl EXCEPT ![me.srv].running = TRUE]
    /\ \E logOk \in BOOLEAN :
          IF ParseInt(me.port) = -1 \/ ~logOk
          THEN Go(t, [me EXCEPT !.pc = "dead", !.escaped = TRUE])
          ELSE Go(t, [me EXCEPT !.pc = "st_loop", !.si = 1])
    /\ UNCHANGED <<fs, gcancel>>

\* lines 89-112: the head of the station loop reads the cancel signal; then
\* the timestamp is parsed and the downloader is called
StationLoop(t) ==
    LET me == Me(t)
        ts == me.par.single_ts
        p == ParseSingleTs(ts)
    IN
    /\ me.pc = "st_loop"
    /\ IF ctl[me.srv].cancel
       THEN Go(t, [me EXCEPT !.pc = "w_completed", !.sawCancel = TRUE])
       ELSE IF ts # <<>> /\ ~p.ok
       THEN \E cbOk \in BOOLEAN :
               IF cbOk THEN Go(t, [me EXCEPT !.si = @ + 1])
               ELSE Go(t, [me EXCEPT !.pc = "w_except", !.failedAt = "status"])
       ELSE Go(t, [me EXCEPT !.pc = "connect", !.attempt = 1,
                             !.station = me.stations[me.si],
                             !.start_dt = IF ts # <<>> THEN p.date ELSE me.par.start_dt,
                             !.end_dt = IF ts # <<>> THEN p.date ELSE me.par.end_dt])
    /\ UNCHANGED <<ctl, fs, gcancel>>

\* lines 145-146: finally
WorkerFinally(t) ==
    /\ Me(t).pc = "w_finally"
    /\ ctl' = [ctl EXCEPT ![Me(t).srv].running = FALSE]
    /\ Go(t, [Blank EXCEPT !.pc = "done", !.srv = Me(t).srv])
    /\ UNCHANGED <<fs, gcancel>>

-----------------------------------------------------------------------------
(* downloader.download_files_by_prefix: the steps that read the signals or *)
(* touch the local file system.                                            *)

\* lines 239-245: the head of the loop over wanted_dt_list
DayLoop(t) ==
    LET me == Me(t) IN
    /\ me.pc = "day_loop"
    /\ \E day \in {Wanted(me)[me.di][1]} :
          IF Cancelled(t)
          THEN Go(t, [me EXCEPT !.pc = "quit", !.sawCancel = TRUE])
          ELSE IF day \in me.dates_seen
          THEN Go(t, [me EXCEPT !.di = @ + 1])
          ELSE Go(t, [me EXCEPT !.pc = "resolve", !.dt = day, !.nres = @ + 1,
                                !.dates_seen = @ \cup {day}])
    /\ UNCHANGED <<ctl, fs, gcancel>>

\* lines 269-282: the head of the loop over the listed names
FileLoop(t) ==
    LET me == Me(t) IN
    /\ me.pc = "file_loop"
    /\ \E base_fname \in {Basename(Str[me.files[me.fi]])} :
       \E local_path \in {LocalPath(me.par.local_folder, me.par.state, me.station,
                                    me.dt, IdOf(base_fname))} :
          IF Cancelled(t)
          THEN Go(t, [me EXCEPT !.pc = "day_loop", !.di = @ + 1,
                                !.sawCancel = TRUE])
          ELSE IF ~matches_station_file(base_fname, Str[me.station])
          THEN Go(t, [me EXCEPT !.fi = @ + 1])
          ELSE Go(t, [me EXCEPT !.pc = "local_check", !.local_path = local_path,
                                !.reached = Append(@, [local |-> local_path,
                                                       remote |-> me.remote_path
                                                           \o <<"/">> \o base_fname])])
    /\ UNCHANGED <<ctl, fs, gcancel>>

\* an existence check that finds nothing
LocalExistsNever(f, p) == FALSE

\* os.path.exists(local_path), line 284
LocalExists(f, p) == p \in DOMAIN f

\* lines 283-296: an existing local file is a success; the dry run writes a
\* placeholder
LocalCheck(t) ==
    LET me == Me(t)
        good == [me EXCEPT !.pc = "file_loop", !.fi = @ + 1,
                           !.downloaded = Append(@, me.local_path)]
        bad == [me EXCEPT !.pc = "file_loop", !.fi = @ + 1,
                          !.failed = Append(@, RemoteId(me))]
    IN
    /\ me.pc = "local_check"
    /\ IF LocalExists(fs, me.local_path)
       THEN Go(t, good) /\ UNCHANGED fs
       ELSE IF me.par.test_mode
       THEN \E writeOk \in BOOLEAN :
               IF writeOk
               THEN Go(t, good) /\ fs' = FsPut(fs, me.local_path, DummyData)
               ELSE Go(t, bad) /\ UNCHANGED fs
       ELSE Go(t, [me EXCEPT !.pc = "xfer_open"]) /\ UNCHANGED fs
    /\ UNCHANGED <<ctl, gcancel>>

-----------------------------------------------------------------------------
(* downloader.download_file_with_progress *)

\* the file system after open(local_path, "wb"): the file is created, or
\* truncated when it is there
OpenWb(f, p) == FsPut(f, p, <<>>)

\* lines 299-305 of the caller (CWD to the folder, else RETR by the full
\* path) and lines 92-101: the local file is opened for writing
XferOpen(t) ==
    LET me == Me(t)
        base_fname == Str[me.local_path.fname]
    IN
    /\ me.pc = "xfer_open"
    /\ \E cwdUp \in BOOLEAN, openOk \in BOOLEAN :
          LET cwdOk == cwdUp /\ ServerHasDir(me.rcwd, me.remote_path)
              r0 == IF me.mode = "single" THEN me
                    ELSE IF cwdOk
                    THEN [me EXCEPT !.rcwd = ServerResolve(me.rcwd, me.remote_path),
                                    !.remote_file = base_fname]
                    ELSE [me EXCEPT !.remote_file =
                                        RStripSlash(me.remote_path) \o <<"/">> \o base_fname]
              r1 == [r0 EXCEPT !.received = 0, !.rmFailed = FALSE, !.nxfer = @ + 1,
                               !.waited = FALSE]
          IN IF openOk
             THEN /\ fs' = OpenWb(fs, me.local_path)
                  /\ Go(t, [r1 EXCEPT !.pc = "xfer_recv", !.open = TRUE, !.orphan = FALSE])
             ELSE /\ Go(t, [r1 EXCEPT !.pc = "xfer_cleanup"])
                  /\ UNCHANGED fs
    /\ UNCHANGED <<ctl, gcancel>>

\* a pause loop that never finds the signal set
PausedNever(t) == FALSE

\* pause_event.is_set(), line 106
Paused(t) == ctl[th[t].srv].pause

\* lines 104-106 of _callback: cancel is read, then pause
ChunkCheck(t) ==
    LET me == Me(t) IN
    /\ me.pc = "xfer_cb"
    /\ IF Cancelled(t)
       THEN Go(t, [me EXCEPT !.pc = "xfer_cleanup", !.open = FALSE,
                             !.sawCancel = TRUE])
       ELSE IF Paused(t)
       THEN Go(t, [me EXCEPT !.pc = "xfer_pause", !.waited = TRUE])
       ELSE Go(t, [me EXCEPT !.pc = "xfer_write"])
    /\ UNCHANGED <<ctl, fs, gcancel>>

\* lines 106-109 of _callback: after the sleep cancel is read, then pause again
PauseWake(t) ==
    LET me == Me(t) IN
    /\ me.pc = "xfer_pause"
    /\ IF Cancelled(t)
       THEN Go(t, [me EXCEPT !.pc = "xfer_cleanup", !.open = FALSE,
                             !.sawCancel = TRUE])
       ELSE IF Paused(t)
       THEN Go(t, me)
       ELSE Go(t, [me EXCEPT !.pc = "xfer_write"])
    /\ UNCHANGED <<ctl, fs, gcancel>>

\* lines 110-116 of _callback: the chunk is written at the handle's offset; a
\* handle whose file was removed writes to no path
ChunkWrite(t) ==
    LET me == Me(t) IN
    /\ me.pc = "xfer_write"
    /\ \E writeOk \in BOOLEAN :
          IF ~writeOk
          THEN /\ Go(t, [me EXCEPT !.pc = "xfer_cleanup", !.open = FALSE])
               /\ UNCHANGED fs
          ELSE /\ Go(t, [me EXCEPT !.pc = "xfer_recv", !.received = @ + 1])
               /\ IF me.orphan \/ me.local_path \notin DOMAIN fs
                  THEN UNCHANGED fs
                  ELSE fs' = FsPut(fs, me.local_path,
                                   WriteAt(fs[me.local_path], me.received + 1,
                                           me.received + 1))
    /\ UNCHANGED <<ctl, gcancel>>

\* an except branch that removes nothing
AfterFailureKeeps(f, p, rmOk) == f

\* the file system after the except branch, lines 120-126: the path is removed
\* when it exists and the removal does not fail
AfterFailure(f, p, rmOk) == IF p \in DOMAIN f /\ rmOk THEN FsRemove(f, p) ELSE f

\* lines 120-126: the except branch; a handle another thread holds on the
\* removed file writes to no path from then on
XferCleanup(t) ==
    LET me == Me(t) IN
    /\ me.pc = "xfer_cleanup"
    /\ \E rmOk \in BOOLEAN :
          /\ fs' = AfterFailure(fs, me.local_path, rmOk)
          /\ GoFrom([u \in Threads |->
                        IF u # t /\ th[u].open /\ th[u].local_path = me.local_path
                           /\ me.local_path \notin DOMAIN fs'
                        THEN [th[u] EXCEPT !.orphan = TRUE]
                        ELSE th[u]],
                    t,
                    [me EXCEPT !.pc = "xfer_ret", !.ok = FALSE,
                               !.rmFailed = (me.local_path \in DOMAIN fs /\ ~rmOk)])
    /\ UNCHANGED <<ctl, gcancel>>

-----------------------------------------------------------------------------
(* A direct caller of the downloader functions. *)

\* a call of download_files_by_prefix with the events of server s
CallPrefix(t, s, inp) ==
    /\ Me(t).pc = "idle"
    /\ Go(t, [Blank EXCEPT !.pc = "connect", !.mode = "prefix", !.srv = s,
                           !.par = inp.par, !.station = inp.station, !.attempt = 1,
                           !.start_dt = inp.par.start_dt, !.end_dt = inp.par.end_dt])
    /\ UNCHANGED <<ctl, fs, gcancel>>

\* the remote file the direct single download asks for
SingleRemote == build_possible_paths(RemoteBase, D1)[3] \o <<"/">> \o FUPPER

\* a call of download_single_by_path with the events of server s
CallSingle(t, s) ==
    /\ Me(t).pc = "idle"
    /\ Go(t, [Blank EXCEPT !.pc = "connect", !.mode = "single", !.srv = s,
                           !.attempt = 1, !.remote_file = SingleRemote,
                           !.local_path = OldFile])
    /\ UNCHANGED <<ctl, fs, gcancel>>

\* the local paths of the files of the server that download_files_by_prefix
\* is asked for: the matching names of the folders of the days of the window
MatchingLocal(station, par) ==
    LET wanted == WantedFrom(par.start_dt, par.end_dt, par)
        days == {wanted[i][1] : i \in 1..Len(wanted)}
        Dirs(d) == LET c == build_possible_paths(RemoteBase, d)
                   IN {ServerResolve(LoginDir, c[i]) : i \in 1..Len(c)} \cap ServerDirs
        Names(dir) == {Basename(Str[ServerListing(dir)[k]]) : k \in 1..Len(ServerListing(dir))}
    IN UNION {UNION {{LocalPath(par.local_folder, par.state, station, d, IdOf(n)) :
                         n \in {m \in Names(dir) : matches_station_file(m, Str[station])}}
                     : dir \in Dirs(d)}
              : d \in days}

\* the invocation whose result is run came to every file it was asked for
\* and none failed
Complete(run) ==
    /\ run.mode = "prefix"
    /\ ~run.raised
    /\ run.failed = <<>>
    /\ {run.reached[i].local : i \in 1..Len(run.reached)} = MatchingLocal(run.station, run.par)

\* the caller invokes download_files_by_prefix a second time with the
\* arguments of a first invocation that got every file
Rerun(t, s) ==
    /\ Me(t).pc = "returned"
    /\ Me(t).mode = "prefix"
    /\ Len(hist.runs) = 1
    /\ Complete(hist.runs[1])
    /\ Go(t, [Blank EXCEPT !.pc = "connect", !.mode = "prefix", !.srv = s,
                           !.par = Me(t).par, !.station = Me(t).station, !.attempt = 1,
                           !.start_dt = Me(t).par.start_dt, !.end_dt = Me(t).par.end_dt])
    /\ UNCHANGED <<ctl, fs, gcancel>>

\* the caller invokes download_files_by_prefix again after a dry run, with
\* the same arguments but test_mode=False
RunAfterDryRun(t, s) ==
    /\ Me(t).pc = "returned"
    /\ Me(t).mode = "prefix"
    /\ Me(t).par.test_mode
    /\ Len(hist.runs) = 1
    /\ Go(t, [Blank EXCEPT !.pc = "connect", !.mode = "prefix", !.srv = s,
                           !.par = [Me(t).par EXCEPT !.test_mode = FALSE],
                           !.station = Me(t).station, !.attempt = 1,
                           !.start_dt = Me(t).par.start_dt, !.end_dt = Me(t).par.end_dt])
    /\ UNCHANGED <<ctl, fs, gcancel>>

-----------------------------------------------------------------------------
(* Specifications. *)

\* the steps of the thread in slot t
ThreadStep(t) ==
    \/ WorkerBegin(t)
    \/ StationLoop(t)
    \/ WorkerFinally(t)
    \/ DayLoop(t)
    \/ FileLoop(t)
    \/ LocalCheck(t)
    \/ XferOpen(t)
    \/ ChunkCheck(t)
    \/ PauseWake(t)
    \/ ChunkWrite(t)
    \/ XferCleanup(t)

\* the controller of server "A" and its worker threads
Next ==
    \/ \E inp \in WorkerInputs : StartDownload("A", inp)
    \/ Pause("A")
    \/ Resume("A")
    \/ Cancel("A")
    \/ \E t \in Threads : ThreadStep(t)

Spec == Init /\ [][Next]_vars

\* what the Download button of the tab of server s starts: both tabs keep
\* the same folder and state label (lines 306-307 give every new server the
\* same defaults), and the same station is entered in both
AppInputs(s) == [stations |-> <<1>>, par |-> BasePar, port |-> PortOk]

\* the first Download of server s, with the entries inp of its tab
FirstStart(s, inp) ==
    /\ \A t \in Threads : th[t].pc = "idle" \/ th[t].srv # s
    /\ ~ctl[s].running
    /\ StartDownload(s, inp)

AppStart(s) == FirstStart(s, AppInputs(s))

\* two servers, each started once, with the signals of "A"
NextApp ==
    \/ \E s \in Servers : AppStart(s)
    \/ Pause("A")
    \/ Resume("A")
    \/ Cancel("A")
    \/ \E t \in Threads : ThreadStep(t)

SpecApp == Init /\ [][NextApp]_vars

\* a Download of "B" by hand, for a day the server does not publish
ManualInput ==
    [stations |-> <<1>>,
     par |-> [BasePar EXCEPT !.state = 11, !.start_dt = D3, !.end_dt = D3],
     port |-> PortOk]

\* the two servers with the process-wide flag and the pause of "A", no
\* per-server cancel
NextShutdown ==
    \/ AppStart("A")
    \/ FirstStart("B", ManualInput)
    \/ Pause("A")
    \/ Resume("A")
    \/ \E val \in BOOLEAN : set_global_cancel(val)
    \/ \E t \in Threads : ThreadStep(t)

\* a thread that can take a step of its own does so in the end
SpecShutdown ==
    Init /\ [][NextShutdown]_vars /\ \A t \in Threads : WF_vars(ThreadStep(t))

\* one run of "A" over two stations, with or without a single timestamp
\* that cannot be decoded, and the buttons of its tab
NextCancel ==
    \/ \E ts \in {<<>>, TsBad} :
          FirstStart("A", [stations |-> <<1, 2>>, par |-> [BasePar EXCEPT !.single_ts = ts],
                           port |-> PortOk])
    \/ Pause("A")
    \/ Resume("A")
    \/ Cancel("A")
    \/ \E val \in BOOLEAN : set_global_cancel(val)
    \/ \E t \in Threads : ThreadStep(t)

\* a thread that can take a step of its own does so in the end: every
\* network call returns and the sleep of the pause loop ends
SpecCancel ==
    Init /\ [][NextCancel]_vars /\ \A t \in Threads : WF_vars(ThreadStep(t))

-----------------------------------------------------------------------------
(* FTPDownloaderApp._scheduled_job, run by the scheduler thread at 00:10. *)

\* self.servers in the order of the settings
ServerOrder == <<"A", "B">>

\* the days on which the job runs: after a 29 February and on a 1 January
Todays == {<<2024, 3, 1>>, <<2024, 1, 1>>}

\* the station lists of the saved configuration
SchedCfgs == [Servers -> {<<>>, <<1>>}]

\* lines 711-723: the parameters of the run of server s
SchedPar(yesterday, s) ==
    [start_dt |-> yesterday, end_dt |-> yesterday,
     start_hour |-> 0, start_min |-> 0, end_hour |-> 23, end_min |-> 55,
     step_minutes |-> 15,
     local_folder |-> 9, state |-> IF s = "A" THEN 10 ELSE 11,
     single_ts |-> <<>>, test_mode |-> FALSE, remote_dir_base |-> RemoteBase]

\* lines 703-724: yesterday and the parameters of every server are computed
\* (one run of the job)
ScheduledJob(today, cfg) ==
    /\ hist.job = NoJob
    /\ hist' = [hist EXCEPT !.job = [pc |-> "loop", idx |-> 1,
                                     today |-> today, yesterday |-> PrevDay(today),
                                     cfg |-> cfg, log |-> <<>>, aborted |-> FALSE]]
    /\ UNCHANGED <<th, ctl, fs, gcancel>>

\* the job after the history line `entry`: an exception of append_history
\* leaves the job, run_pending swallows it (lines 697-700)
JobLogged(job, entry, logOk) ==
    IF ~logOk THEN [job EXCEPT !.pc = "idle", !.aborted = TRUE]
    ELSE [job EXCEPT !.log = Append(@, entry), !.idx = @ + 1,
                     !.pc = IF job.idx = Len(ServerOrder) THEN "idle" ELSE "loop"]

\* lines 727-743: one pass of the loop that starts the downloads
ScheduledStart ==
    LET job == hist.job
        s == ServerOrder[job.idx]
        inp == [stations |-> job.cfg[s], par |-> SchedPar(job.yesterday, s),
                port |-> PortOk]
    IN
    /\ job.pc = "loop"
    /\ \E logOk \in BOOLEAN, uiOk \in BOOLEAN :
          IF job.cfg[s] = <<>>
          THEN /\ uiOk
               /\ hist' = [hist EXCEPT !.job = JobLogged(job, <<"no stations", s>>, logOk)]
               /\ UNCHANGED <<th, ctl>>
          ELSE IF ctl[s].running
          THEN /\ uiOk
               /\ hist' = [hist EXCEPT !.job = JobLogged(job, <<"started", s>>, logOk)]
               /\ UNCHANGED <<th, ctl>>
          ELSE /\ hist.starts < MaxStarts
               /\ FreeSlots # {}
               /\ ctl' = ClearSignals(s)
               /\ th' = Spawn(s, inp)
               /\ hist' = [hist EXCEPT
                              !.starts = @ + 1,
                              !.job = IF uiOk THEN JobLogged(job, <<"started", s>>, logOk)
                                      ELSE [job EXCEPT !.pc = "idle", !.aborted = TRUE]]
    /\ UNCHANGED <<fs, gcancel>>

\* the steps of a run whose day the server does not publish
SchedRunStep(t) ==
    \/ WorkerBegin(t)
    \/ StationLoop(t)
    \/ DayLoop(t)
    \/ WorkerFinally(t)

\* the scheduler thread and the runs it starts, next to a Download of "B"
NextSched ==
    \/ FirstStart("B", ManualInput)
    \/ \E today \in Todays, cfg \in SchedCfgs : ScheduledJob(today, cfg)
    \/ ScheduledStart
    \/ \E t \in Threads : SchedRunStep(t)

SpecSched == Init /\ [][NextSched]_vars

\* one caller that invokes the downloader functions, with the events of "A"
NextOrch ==
    \/ \E inp \in PrefixInputs : CallPrefix("t1", "A", inp)
    \/ CallSingle("t1", "A")
    \/ Rerun("t1", "A")
    \/ Pause("A")
    \/ Resume("A")
    \/ Cancel("A")
    \/ \E val \in BOOLEAN : set_global_cancel(val)
    \/ DayLoop("t1")
    \/ FileLoop("t1")
    \/ LocalCheck("t1")
    \/ XferOpen("t1")
    \/ ChunkCheck("t1")
    \/ PauseWake("t1")
    \/ ChunkWrite("t1")
    \/ XferCleanup("t1")

SpecOrch == Init /\ [][NextOrch]_vars

\* one caller that makes a dry run and then the same run with test_mode off
NextDry ==
    \/ \E inp \in {i \in PrefixInputs : i.par.test_mode} : CallPrefix("t1", "A", inp)
    \/ RunAfterDryRun("t1", "A")
    \/ DayLoop("t1")
    \/ FileLoop("t1")
    \/ LocalCheck("t1")
    \/ XferOpen("t1")
    \/ ChunkCheck("t1")
    \/ ChunkWrite("t1")
    \/ XferCleanup("t1")

SpecDry == Init /\ [][NextDry]_vars

-----------------------------------------------------------------------------
(* The functions of downloader.py applied on their own. *)

\* the largest number of attempts asked for
MaxRetries == 3

\* what an attempt to connect and log in meets: 0 is success, 1 and 2 are
\* two different errors
NetOutcomes == {0, 1, 2}

\* the seconds between attempts that are asked for
Delays == {0, 2}

ConnectArgs ==
    [retries : 0..MaxRetries, delay : Delays, net : [1..MaxRetries -> NetOutcomes]]

\* base paths: "/data", "/data/", "/data//", "", "/" and "data"
BasePaths ==
    {SLASHDATA, SLASHDATA \o <<"/">>, SLASHDATA \o <<"/", "/">>, <<>>, <<"/">>,
     Tail(SLASHDATA)}

\* dates with one and with two digits in day and month
Dates == {D1, D2, D3, <<2023, 9, 5>>, <<2024, 2, 29>>, <<2023, 11, 11>>, <<2023, 1, 1>>}

\* the calls that are made
PureCalls ==
    {[fn |-> "ftp_connect", args |-> a, done |-> FALSE, out |-> <<>>] : a \in ConnectArgs}
    \cup {[fn |-> "build_possible_paths", args |-> a, done |-> FALSE, out |-> <<>>] :
             a \in [base_path : BasePaths, date_obj : Dates]}
    \cup {[fn |-> "find_existing_remote_path", args |-> a, done |-> FALSE, out |-> <<>>] :
             a \in [date_obj : {D1, D2, D3}, up : SUBSET (1..4), pwdOk : BOOLEAN]}
    \cup {[fn |-> "single_ts", args |-> a, done |-> FALSE, out |-> <<>>] :
             a \in [yy : {0, 23, 24, 89, 90, 99}, m : {1, 2, 12}, d : {1, 28, 29, 31},
                    H : {0, 12, 23}, M : {0, 59}]}

InitPure ==
    /\ th = [t \in Threads |-> Blank]
    /\ ctl = [s \in Servers |-> NewController]
    /\ fs = EmptyFs
    /\ gcancel = FALSE
    /\ \E c \in PureCalls : hist = [runs |-> <<>>, starts |-> 0, job |-> NoJob, call |-> c,
                                    sched |-> NoSched, reg |-> NoReg]

\* the call returns or raises
Returns(out) ==
    /\ hist' = [hist EXCEPT !.call.done = TRUE, !.call.out = out]
    /\ UNCHANGED <<th, ctl, fs, gcancel>>

CallFtpConnect ==
    /\ hist.call.fn = "ftp_connect" /\ ~hist.call.done
    /\ \E a \in {hist.call.args} : Returns(ftp_connect_run(a.retries, a.delay, a.net))

CallBuildPaths ==
    /\ hist.call.fn = "build_possible_paths" /\ ~hist.call.done
    /\ \E a \in {hist.call.args} : Returns(build_possible_paths(a.base_path, a.date_obj))

\* the search starts in the login directory of a new session
CallFindPath ==
    /\ hist.call.fn = "find_existing_remote_path" /\ ~hist.call.done
    /\ \E a \in {hist.call.args} :
          Returns(find_existing_remote_path(LoginDir,
                                            build_possible_paths(RemoteBase, a.date_obj),
                                            a.up, a.pwdOk))

\* main.py lines 93-112 and downloader.py lines 217-227: the text YYMMDDHHMM
\* of the fields is decoded, and the window the downloader is called with is
\* expanded with the times of the day the worker passes
CallSingleTs ==
    /\ hist.call.fn = "single_ts" /\ ~hist.call.done
    /\ \E a \in {hist.call.args} :
       \E p \in {ParseSingleTs(Digits(a.yy, 2) \o Digits(a.m, 2) \o Digits(a.d, 2)
                                \o Digits(a.H, 2) \o Digits(a.M, 2))} :
          Returns([ok |-> p.ok, start_dt |-> p.date, end_dt |-> p.date,
                   minute |-> p.minute,
                   wanted |-> IF p.ok THEN WantedFrom(p.date, p.date, BasePar) ELSE <<>>])

NextPure ==
    \/ CallSingleTs
    \/ CallFtpConnect
    \/ CallBuildPaths
    \/ CallFindPath

SpecPure == InitPure /\ [][NextPure]_vars

-----------------------------------------------------------------------------
(* FTPDownloaderApp: the scheduler and its loop thread. *)

\* most loop threads created
MaxLoops == 6

\* FTPDownloaderApp.start_scheduler, with the schedule library installed
start_scheduler(s) ==
    IF s.scheduler_thread # 0 /\ s.loops[s.scheduler_thread] # "exited"
    THEN [s EXCEPT !.last = "start"]
    ELSE [s EXCEPT !.stop_event = FALSE, !.loops = Append(@, "clear"),
                   !.scheduler_thread = Len(s.loops) + 1, !.last = "start"]

\* FTPDownloaderApp.stop_scheduler: the event is set, the thread not joined
stop_scheduler(s) ==
    IF s.scheduler_thread # 0
    THEN [s EXCEPT !.stop_event = TRUE, !.last = "stop"]
    ELSE [s EXCEPT !.last = "stop"]

\* FTPDownloaderApp._on_toggle_auto_midnight: the box is ticked or cleared
OnToggleAutoMidnight(on) ==
    /\ \E s \in {IF on THEN start_scheduler([hist.sched EXCEPT !.auto_midnight_enabled = TRUE])
                 ELSE stop_scheduler([hist.sched EXCEPT !.auto_midnight_enabled = FALSE])} :
          /\ Len(s.loops) <= MaxLoops
          /\ hist' = [hist EXCEPT !.sched = s]
    /\ UNCHANGED <<th, ctl, fs, gcancel>>

\* FTPDownloaderApp._save_all_from_ui, lines 634-642: the scheduler is
\* started or stopped again by the box as it stands
SaveAllFromUi ==
    /\ \E s \in {IF hist.sched.auto_midnight_enabled THEN start_scheduler(hist.sched)
                 ELSE stop_scheduler(hist.sched)} :
          /\ Len(s.loops) <= MaxLoops
          /\ hist' = [hist EXCEPT !.sched = s]
    /\ UNCHANGED <<th, ctl, fs, gcancel>>

\* FTPDownloaderApp._scheduler_loop, one step of loop thread i: the jobs of
\* the library are cleared, the job is registered, the stop event is read,
\* run_pending is called, the thread sleeps 5 seconds
SchedulerLoop(i) ==
    /\ i \in 1..Len(hist.sched.loops)
    /\ \E pc \in {hist.sched.loops[i]} :
          /\ pc # "exited"
          /\ hist' = [hist EXCEPT
                         !.sched.jobs = CASE pc = "clear" -> 0
                                          [] pc = "register" -> @ + 1
                                          [] OTHER -> @,
                         !.sched.loops[i] =
                         CASE pc = "clear" -> "register"
                           [] pc = "register" -> "check"
                           [] pc = "check" -> IF hist.sched.stop_event THEN "exited"
                                              ELSE "pending"
                           [] pc = "pending" -> "sleep"
                           [] pc = "sleep" -> "check"]
    /\ UNCHANGED <<th, ctl, fs, gcancel>>

NextAuto ==
    \/ \E on \in BOOLEAN : OnToggleAutoMidnight(on)
    \/ SaveAllFromUi
    \/ \E i \in 1..MaxLoops : SchedulerLoop(i)

SpecAuto == Init /\ [][NextAuto]_vars

-----------------------------------------------------------------------------
(* FTPDownloaderApp: the servers and the registry of their controllers. *)

\* most servers configured
MaxServers == 2

\* most ServerController objects created
MaxCtrls == 3

\* FTPDownloaderApp._create_server_tabs with _build_server_ui: the registry
\* is cleared and a new ServerController is made for every server
create_server_tabs(a) ==
    [a EXCEPT !.controllers = [i \in 1..Len(a.servers) |-> Len(a.objs) + i],
              !.objs = @ \o [i \in 1..Len(a.servers) |->
                                [srv |-> a.servers[i], running |-> FALSE, threads |-> 0,
                                 cancel |-> FALSE, pause |-> FALSE]]]

\* the handlers that change the servers and rebuild the tabs: _add_server,
\* _remove_server, the Reload Servers button, _save_settings_from_settings_tab
ServersChanged(by) ==
    /\ \E servers \in
           CASE by = "add" ->
                  {Append(hist.reg.servers, s) :
                     s \in {x \in 1..MaxServers :
                              \A i \in 1..Len(hist.reg.servers) : hist.reg.servers[i] # x}}
             [] by = "remove" ->
                  {SubSeq(hist.reg.servers, 1, i - 1)
                     \o SubSeq(hist.reg.servers, i + 1, Len(hist.reg.servers))
                     : i \in 1..Len(hist.reg.servers)}
             [] OTHER -> {hist.reg.servers} :
          \E a \in {create_server_tabs([hist.reg EXCEPT !.servers = servers])} :
              /\ Len(a.objs) <= MaxCtrls
              /\ hist' = [hist EXCEPT !.reg = a]
    /\ UNCHANGED <<th, ctl, fs, gcancel>>

\* FTPDownloaderApp._start_download and the loop of _scheduled_job, lines
\* 727-743, for the server at position idx: start_download of the
\* registered controller, which refuses when its running flag is set
StartAt(idx, by) ==
    /\ idx \in DOMAIN hist.reg.controllers
    /\ \E c \in {hist.reg.controllers[idx]} :
          /\ ~hist.reg.objs[c].running
          /\ hist.reg.objs[c].threads < MaxStarts
          /\ hist' = [hist EXCEPT !.reg.objs[c] =
                         [@ EXCEPT !.srv = hist.reg.servers[idx], !.threads = @ + 1,
                                   !.cancel = FALSE, !.pause = FALSE]]
    /\ UNCHANGED <<th, ctl, fs, gcancel>>

\* FTPDownloaderApp._pause_server, _resume_server and _cancel_server
ServerButton(idx, which) ==
    /\ idx \in DOMAIN hist.reg.controllers
    /\ \E c \in {hist.reg.controllers[idx]} :
          hist' = [hist EXCEPT !.reg.objs[c] =
                     CASE which = "pause" -> [@ EXCEPT !.pause = TRUE]
                       [] which = "resume" -> [@ EXCEPT !.pause = FALSE]
                       [] which = "cancel" -> [@ EXCEPT !.cancel = TRUE]]
    /\ UNCHANGED <<th, ctl, fs, gcancel>>

\* ServerController._worker of object c: line 76 sets the running flag, the
\* finally branch clears it and the thread ends
WorkerOf(c, ends) ==
    /\ c \in 1..Len(hist.reg.objs)
    /\ hist.reg.objs[c].threads > 0
    /\ IF ends
       THEN /\ hist.reg.objs[c].running
            /\ hist' = [hist EXCEPT !.reg.objs[c] =
                           [@ EXCEPT !.running = FALSE, !.threads = @ - 1]]
       ELSE /\ ~hist.reg.objs[c].running
            /\ hist' = [hist EXCEPT !.reg.objs[c].running = TRUE]
    /\ UNCHANGED <<th, ctl, fs, gcancel>>

NextReg ==
    \/ \E by \in {"add", "remove", "reload", "save"} : ServersChanged(by)
    \/ \E idx \in 1..MaxServers, by \in {"manual", "scheduled"} : StartAt(idx, by)
    \/ \E idx \in 1..MaxServers, which \in {"pause", "resume", "cancel"} :
          ServerButton(idx, which)
    \/ \E c \in 1..MaxCtrls, ends \in BOOLEAN : WorkerOf(c, ends)

SpecReg == Init /\ [][NextReg]_vars

-----------------------------------------------------------------------------
(* Properties. *)

\* a thread that runs download_files_by_prefix or download_single_by_path
InCall(r) == r.pc \notin {"idle", "spawned", "done", "dead", "returned", "raised"}

\* C1: a local file that exists at a target path is never truncated,
\* rewritten or deleted: the file an earlier session left keeps its content
\* whatever is run.
C1_ExistingFileKept == OldFile \in DOMAIN fs /\ fs[OldFile] = FullData(OldFile.fname)

\* C2 as stated: when download_file_with_progress reports failure, no file is
\* at the target local path.
C2_NoFileAfterFailure ==
    [][\A t \in Threads :
          (th[t].pc = "xfer_cleanup" /\ th'[t] # th[t])
              => th[t].local_path \notin DOMAIN fs']_vars

\* C2, amended: when download_file_with_progress reports failure, no file is
\* at the target local path unless the removal of the file failed; the
\* removal is not tried again.
C2_NoFileUnlessRemovalFailed ==
    [][\A t \in Threads :
          (th[t].pc = "xfer_cleanup" /\ th'[t] # th[t])
              => (th[t].local_path \notin DOMAIN fs' \/ th'[t].rmFailed)]_vars

\* a transfer was cancelled after its first chunk was written, it reported
\* failure and the invocation returned: the partial file is gone
C2_Witness ==
    \E t \in Threads :
        /\ th[t].pc = "returned" /\ th[t].mode = "prefix"
        /\ th[t].sawCancel /\ th[t].received >= 1 /\ ~th[t].ok /\ ~th[t].rmFailed
        /\ Len(th[t].failed) >= 1
        /\ th[t].local_path \notin DOMAIN fs

\* a worker thread whose run is in progress: started and not ended
InRun(r) == r.mode = "worker" /\ r.pc \notin {"idle", "done", "dead"}

\* C3: a start_download issued while a run of the controller is in progress
\* spawns no thread and leaves the signals alone, so at most one worker
\* thread of a controller is executing at any instant.
C3_OneWorkerPerController ==
    /\ [](\A t, u \in Threads :
            (InRun(th[t]) /\ InRun(th[u]) /\ th[t].srv = th[u].srv) => t = u)
    /\ [][\A s \in Servers :
            (\E u \in Threads : InRun(th[u]) /\ th[u].srv = s)
                => /\ \A t \in Threads :
                        (th'[t].pc = "spawned" /\ th'[t].srv = s) => th[t].pc = "spawned"
                   /\ (ctl'[s].cancel = ctl[s].cancel \/ ctl'[s].cancel)
                   /\ (ctl'[s].pause = ctl[s].pause \/ th' = th)]_vars

\* C4: at every instant at most one FTP session is open for a server.
C4_OneSessionPerServer ==
    \A t, u \in Threads : (th[t].sess /\ th[u].sess /\ th[t].srv = th[u].srv) => t = u

\* C6: from cancel() on a controller with a run in progress until that run
\* ends, the cancel signal stays set.
C6_CancelStaysSet ==
    [][\A t \in Threads :
          (ctl[th[t].srv].cancel /\ InRun(th[t]) /\ InRun(th'[t]))
              => ctl'[th[t].srv].cancel]_vars

\* C7: every worker run ends without an exception leaving the thread, and
\* with running = False: no thread ends on an exception, and when no run of
\* a controller is in progress its running flag is down.
C7_WorkerEndsClean ==
    /\ \A t \in Threads : ~th[t].escaped /\ th[t].pc # "dead"
    /\ \A s \in Servers :
          (\A t \in Threads : ~(InRun(th[t]) /\ th[t].srv = s)) => ~ctl[s].running

\* C8: a run in which the cancel signal was observed ends in an outcome
\* other than Completed.
C8_CancelledIsNotCompleted ==
    \A t \in Threads :
        (th[t].pc = "w_finally" /\ th[t].sawCancel) => th[t].outcome # "Completed"

\* either cancel signal of the invocation of thread t is set
SignalSet(t) == ctl[th[t].srv].cancel \/ gcancel

\* C5 as stated: once a cancel signal is set during an invocation of
\* download_files_by_prefix, the invocation starts no directory resolution
\* and no transfer and adds no file to the success collection.
C5_NothingAfterCancel ==
    [][\A t \in Threads :
          (th[t].mode = "prefix" /\ InCall(th[t]) /\ SignalSet(t) /\ th'[t] # th[t])
              => /\ th'[t].nres = th[t].nres
                 /\ th'[t].nxfer = th[t].nxfer
                 /\ th'[t].downloaded = th[t].downloaded]_vars

\* C5, amended: the signals are read before each day, before each listed
\* file and before each chunk is written, also after each sleep of a pause.
\* A read that finds a signal set starts no directory resolution and no
\* transfer, writes nothing and adds no success: the loop breaks, the
\* transfer in progress goes to its failure branch.  (What was read as not
\* cancelled is still carried out.)
C5_CheckpointsStop ==
    [][\A t \in Threads :
          (th[t].pc \in {"day_loop", "file_loop", "xfer_cb", "xfer_pause"}
              /\ SignalSet(t) /\ th'[t] # th[t])
              => /\ th'[t].nres = th[t].nres
                 /\ th'[t].nxfer = th[t].nxfer
                 /\ th'[t].downloaded = th[t].downloaded
                 /\ fs' = fs
                 /\ th'[t].pc \notin {"local_check", "xfer_open", "xfer_write"}
                 /\ th[t].pc \in {"xfer_cb", "xfer_pause"} => th'[t].pc = "xfer_cleanup"]_vars

\* cancel was set after the first file of a window of several days was
\* transferred; the invocation returned with that file alone
C5_Witness ==
    \E t \in Threads :
        /\ th[t].pc = "returned" /\ th[t].mode = "prefix" /\ th[t].sawCancel
        /\ Len(Wanted(th[t])) >= 2
        /\ th[t].nres = 1 /\ th[t].nxfer = 1
        /\ Len(th[t].downloaded) = 1 /\ th[t].failed = <<>>

\* the number of places of seq that hold x
Count(seq, x) == Cardinality({i \in 1..Len(seq) : seq[i] = x})

\* the files the loop came to and is through with
FilesDone(r) ==
    Len(r.reached) - (IF r.pc \in {"local_check", "xfer_open", "xfer_cb", "xfer_pause",
                                   "xfer_write", "xfer_cleanup"} THEN 1 ELSE 0)

\* C9: each matching file the loop came to adds exactly one entry to exactly
\* one of the two collections: its local path to downloaded or its remote
\* identifier to failed.
C9_ExactlyOneEntry ==
    \A t \in Threads :
        th[t].mode \in {"prefix", "worker"} =>
            /\ Len(th[t].downloaded) + Len(th[t].failed) = FilesDone(th[t])
            /\ \A i \in 1..FilesDone(th[t]) :
                   Count(th[t].downloaded, th[t].reached[i].local)
                       + Count(th[t].failed, th[t].reached[i].remote) = 1

\* an invocation that transfers returned with a success and a failure
C9_Witness ==
    \E t \in Threads :
        /\ th[t].pc = "returned" /\ th[t].mode = "prefix" /\ ~th[t].par.test_mode
        /\ Len(th[t].downloaded) >= 1 /\ Len(th[t].failed) >= 1
        /\ th[t].nxfer >= 2

\* the second invocation is in progress or has ended
InSecond(r) == Len(hist.runs) = 2 \/ (Len(hist.runs) = 1 /\ InCall(r))

\* the local paths of the files an invocation came to, in order
Locals(run) == [i \in 1..Len(run.reached) |-> run.reached[i].local]

C11_NoWriteWhilePaused ==
    [][\A t \in Threads :
          (ctl[th[t].srv].pause /\ th[t].pc = "xfer_write") => fs' = fs]_vars

\* the step of thread t ends a transfer with success
EndsTransferOk(t) ==
    \/ Len(th'[t].downloaded) > Len(th[t].downloaded)
    \/ th[t].mode = "single" /\ th'[t].pc = "returned" /\ th'[t].ok

\* C11, amended: the pause signal is read before each chunk is written and
\* after each sleep of the pause loop.  A read that finds it set (and no
\* cancel) writes nothing and leaves the transfer sleeping on the same file;
\* a chunk whose read came before the signal was set is still written, one
\* at most.  A transfer that completes, paused or not, leaves every chunk
\* once and in order of arrival in the local file.
C11_PauseBlocksAtRead ==
    [][\A t \in Threads :
          /\ (th[t].pc \in {"xfer_cb", "xfer_pause"} /\ ctl[th[t].srv].pause
                 /\ ~SignalSet(t) /\ th'[t] # th[t])
                => /\ th'[t].pc = "xfer_pause"
                   /\ th'[t].local_path = th[t].local_path
                   /\ th'[t].received = th[t].received
                   /\ fs' = fs
          /\ (th[t].pc = "xfer_write" /\ th'[t] # th[t] /\ EndsTransferOk(t))
                => /\ th[t].local_path \in DOMAIN fs'
                   /\ fs'[th[t].local_path] = FullData(th[t].local_path.fname)]_vars

\* a transfer of several chunks slept in the pause loop, went on after the
\* resume and completed: the file is whole
C11_Witness ==
    \E t \in Threads :
        /\ th[t].pc = "returned" /\ th[t].mode = "prefix"
        /\ th[t].waited /\ th[t].ok /\ ~th[t].sawCancel
        /\ th[t].received = MaxChunks /\ MaxChunks >= 2
        /\ th[t].local_path \in DOMAIN fs
        /\ fs[th[t].local_path] = FullData(th[t].local_path.fname)
        /\ Len(fs[th[t].local_path]) = MaxChunks

-----------------------------------------------------------------------------
(* C12: the process-wide flag. *)

\* the places between a read of the signals and the next one
MidTransfer == {"local_check", "xfer_open", "xfer_write"}

\* the reads of the flag stop the work: with the flag set and no per-server
\* cancel, no step of a worker starts a directory resolution; a worker that
\* is not between two reads starts no transfer and stays so; a read of the
\* flag writes nothing and adds no file
C12_FlagStopsAtBoundary ==
    [][\A t \in Threads :
          (InRun(th[t]) /\ gcancel /\ ~ctl[th[t].srv].cancel /\ th'[t] # th[t])
              => /\ th'[t].nres <= th[t].nres
                 /\ th[t].pc \notin MidTransfer
                       => /\ th'[t].nxfer <= th[t].nxfer
                          /\ th'[t].pc \notin MidTransfer
                 /\ th[t].pc \in {"day_loop", "file_loop", "xfer_cb", "xfer_pause"}
                       => /\ fs' = fs
                          /\ th'[t].sawCancel
                          /\ Len(th'[t].downloaded) <= Len(th[t].downloaded)]_vars

\* a worker that is inside its try block when the flag is set reaches
\* running = False, unless the flag is taken back
C12_InsideTryEnds ==
    \A t \in Threads : \A s \in Servers :
        (gcancel /\ InRun(th[t]) /\ th[t].srv = s /\ th[t].pc # "spawned")
            ~> (~gcancel \/ ~ctl[s].running)

\* C12: once the process-wide flag is set, without a per-server cancel,
\* every running worker of every server stops at its next chunk, file or day
\* boundary: it starts no transfer and no directory resolution afterwards,
\* and every worker reaches running = False in the end.
C12_ShutdownStopsEveryWorker ==
    /\ C12_FlagStopsAtBoundary
    /\ \A s \in Servers : (gcancel /\ ctl[s].running) ~> (~gcancel \/ ~ctl[s].running)

\* the workers of both servers read the flag and left their loops
C12_BothStopped ==
    \E t, u \in Threads :
        /\ th[t].srv = "A" /\ th[u].srv = "B"
        /\ th[t].pc = "w_finally" /\ th[u].pc = "w_finally"
        /\ th[t].sawCancel /\ th[u].sawCancel
        /\ gcancel /\ ~ctl["A"].cancel /\ ~ctl["B"].cancel

-----------------------------------------------------------------------------
(* C13: the scheduled job. *)

\* the job deals with server s in this step
JobVisits(s) ==
    hist.job.pc = "loop" /\ ServerOrder[hist.job.idx] = s /\ hist'.job # hist.job

\* the window of the parameters par is the whole day before `today`, in
\* steps of a quarter of an hour, and no other day
WindowIsDayBefore(par, today) ==
    LET w == WantedFrom(par.start_dt, par.end_dt, par) IN
    /\ NextDay(par.start_dt) = today
    /\ par.end_dt = par.start_dt
    /\ Len(w) = 96
    /\ \A i \in 1..Len(w) : w[i] = <<par.start_dt, 15 * (i - 1)>>

\* this step starts a worker thread for server s with yesterday's window
StartsRunOf(s) ==
    \E t \in Threads :
        /\ th'[t] # th[t]
        /\ th'[t].pc = "spawned" /\ th'[t].mode = "worker" /\ th'[t].srv = s
        /\ th'[t].stations = hist.job.cfg[s]
        /\ WindowIsDayBefore(th'[t].par, hist.job.today)
        /\ \A u \in Threads \ {t} : th'[u] = th[u]

-----------------------------------------------------------------------------
(* C14: two servers. *)

\* the successes of the run with locals r that name no file of the start
NewSuccesses(r) == {i \in 1..Len(r.downloaded) : r.downloaded[i] \notin DOMAIN (FsPut(EmptyFs, OldFile, FullData(5)))}

\* C14: start, pause, resume and cancel of "A" leave the pause signal, the
\* cancel signal and the running flag of "B" unchanged, and the result
\* collections of the run of "B" are those of a run of "B" alone: a step
\* that is not one of "B" leaves the controller of "B" as it is, and every
\* success the run of "B" reports is a file that was there before any run
\* or a file that run transferred itself.
C14_OtherServerUnaffected ==
    /\ [][(\A t \in Threads : th'[t].srv = "B" => th'[t] = th[t])
              => ctl'["B"] = ctl["B"]]_vars
    /\ [](\A t \in Threads :
            (th[t].srv = "B" /\ th[t].mode = "worker")
                => Cardinality(NewSuccesses(th[t])) <= th[t].nxfer)

\* the signals of "B" alone
C14_SignalsApart ==
    [][(\A t \in Threads : th'[t].srv = "B" => th'[t] = th[t])
          => ctl'["B"] = ctl["B"]]_vars

-----------------------------------------------------------------------------
(* C15: ftp_connect. *)

\* the call of ftp_connect that has ended
ConnectDone == hist.call.fn = "ftp_connect" /\ hist.call.done

\* the attempts of the log, in their order
AttemptsOf(log) == SelectSeq(log, LAMBDA e : e[1] = "attempt")

\* C15: ftp_connect makes at most `retries` attempts, returns on the first
\* success, sleeps `delay` only between two consecutive attempts (never
\* after the last failed one), and raises the connection failure with the
\* last error exactly when every attempt failed.
C15_RetryContract ==
    ConnectDone =>
        LET a == hist.call.args
            out == hist.call.out
            n == Len(AttemptsOf(out.log))
            allFailed == \A k \in 1..a.retries : a.net[k] # 0
        IN
        /\ n <= a.retries
        /\ \A k \in 1..n : AttemptsOf(out.log)[k] = <<"attempt", k>>
        /\ out.result = "ftp"
              <=> (n >= 1 /\ a.net[n] = 0 /\ \A k \in 1..(n - 1) : a.net[k] # 0)
        /\ \A i \in 1..Len(out.log) :
              out.log[i][1] = "sleep"
                  => /\ out.log[i][2] = a.delay
                     /\ 1 < i /\ i < Len(out.log)
                     /\ out.log[i - 1][1] = "attempt" /\ out.log[i + 1][1] = "attempt"
        /\ out.result = "ConnectionError" <=> allFailed
        /\ (allFailed /\ a.retries >= 1) => out.last_exc = a.net[a.retries]

\* what holds of the sleeps: one sleep of `delay` follows every failed
\* attempt, the last one included
C15_SleepAfterEveryFailure ==
    ConnectDone =>
        LET a == hist.call.args
            out == hist.call.out
        IN \A i \in 1..Len(out.log) :
              /\ out.log[i][1] = "attempt" /\ a.net[out.log[i][2]] # 0
                    => i < Len(out.log) /\ out.log[i + 1] = <<"sleep", a.delay>>
              /\ out.log[i][1] = "sleep" => i > 1 /\ out.log[i - 1][1] = "attempt"


-----------------------------------------------------------------------------
(* C16: what ends a worker run. *)

\* a worker that left its try block
LeftTry(r) == r.mode = "worker" /\ r.pc = "w_finally"

\* C16: a connection that cannot be established for some station aborts
\* the run: no later station is attempted and the run is reported as
\* Error; no failure of a day or a file aborts the run: a run that does not
\* end as Completed was sent to the except branch by a failed connection or
\* by a status or history call that raised.
C16_OnlyConnectionFailureAborts ==
    /\ [](\A t \in Threads :
            (LeftTry(th[t]) /\ th[t].failedAt = "connect")
                => th[t].outcome = "Error" /\ ~th[t].escaped)
    /\ [][\A t \in Threads :
            (LeftTry(th[t]) /\ th[t].failedAt = "connect" /\ th'[t] # th[t])
                => th'[t].pc = "done"]_vars
    /\ [](\A t \in Threads :
            (LeftTry(th[t]) /\ th[t].outcome # "Completed")
                => th[t].failedAt \in {"connect", "status"})

\* what holds of a failed connection: the except branch is entered at once,
\* with the later stations left out, and the worker ends; the Error status
\* is emitted unless the status or history call of that branch raises
C16_AbortsWithoutLaterStation ==
    /\ [](\A t \in Threads :
            (LeftTry(th[t]) /\ th[t].failedAt = "connect")
                => /\ th[t].outcome = "Error" \/ th[t].escaped
                   /\ th[t].si <= Len(th[t].stations))
    /\ [][\A t \in Threads :
            (LeftTry(th[t]) /\ th[t].failedAt = "connect" /\ th'[t] # th[t])
                => th'[t].pc = "done"]_vars
    /\ [](\A t \in Threads :
            (LeftTry(th[t]) /\ th[t].outcome # "Completed")
                => th[t].failedAt \in {"connect", "status"})
    /\ [](\A t \in Threads :
            (LeftTry(th[t]) /\ th[t].outcome = "Completed" /\ ~th[t].sawCancel)
                => th[t].si = Len(th[t].stations) + 1)


-----------------------------------------------------------------------------
(* C17: the days of the window. *)

\* the calendar days from date a through date b
RECURSIVE DaysThrough(_, _)
DaysThrough(a, b) == IF DateLE(a, b) THEN {a} \cup DaysThrough(NextDay(a), b) ELSE {}

\* a direct invocation of download_files_by_prefix that returned and read
\* no cancel signal
ReturnedUncancelled(r) == r.mode = "prefix" /\ r.pc = "returned" /\ ~r.sawCancel

\* C17: in an invocation that is not cancelled the days for which the
\* directory resolution is attempted are exactly the days from the start
\* date through the end date, whatever the daily start and end time and the
\* step are; there is none only when the start date is after the end date.
C17_EveryDayOfWindow ==
    \A t \in Threads :
        ReturnedUncancelled(th[t])
            => /\ th[t].dates_seen = DaysThrough(th[t].start_dt, th[t].end_dt)
               /\ th[t].dates_seen = {} => ~DateLE(th[t].start_dt, th[t].end_dt)

\* what holds of the days: with a step above zero and a daily start time
\* that is not after the daily end time they are the days of the window;
\* with a daily start time after the daily end time there is none
C17_DaysWhenTimesInOrder ==
    \A t \in Threads :
        ReturnedUncancelled(th[t])
            => LET par == th[t].par IN
               IF par.start_hour * 60 + par.start_min <= par.end_hour * 60 + par.end_min
               THEN th[t].dates_seen = DaysThrough(th[t].start_dt, th[t].end_dt)
               ELSE th[t].dates_seen = {}


-----------------------------------------------------------------------------
(* C18: build_possible_paths. *)

\* the call of build_possible_paths that has ended
PathsDone == hist.call.fn = "build_possible_paths" /\ hist.call.done

\* sequence s ends with sequence e
HasSuffix(s, e) == Len(s) >= Len(e) /\ SubSeq(s, Len(s) - Len(e) + 1, Len(s)) = e

\* C18: build_possible_paths returns exactly four candidates, pairwise
\* distinct, in a fixed order: base/yyyy/mm/dd/, base/yyyy/mm/ddmmyyyy/,
\* and the two again without the trailing slash; the result is a function
\* of the base path and the date alone.
C18_FourCandidatesInOrder ==
    PathsDone =>
        LET a == hist.call.args
            out == hist.call.out
            ymd == <<"/">> \o Digits(a.date_obj[1], 4) \o <<"/">> \o Digits(a.date_obj[2], 2)
                      \o <<"/">> \o Digits(a.date_obj[3], 2)
            dmy == Digits(a.date_obj[3], 2) \o Digits(a.date_obj[2], 2)
                      \o Digits(a.date_obj[1], 4)
        IN
        /\ Len(out) = 4
        /\ \A i, j \in 1..4 : out[i] = out[j] => i = j
        /\ out[1] = out[3] \o <<"/">>
        /\ out[2] = out[4] \o <<"/">>
        /\ HasSuffix(out[3], ymd)
        /\ out[4] = out[3] \o SubSeq(dmy, 3, 8)
        /\ \E k \in 0..Len(a.base_path) :
              /\ out[3] = SubSeq(a.base_path, 1, k) \o ymd
              /\ \A n \in (k + 1)..Len(a.base_path) : a.base_path[n] = "/"
              /\ k > 0 => a.base_path[k] # "/"

\* "/data" and 2023-09-05 give /data/2023/09/05/, /data/2023/09/05092023/,
\* /data/2023/09/05 and /data/2023/09/05092023
C18_Witness ==
    /\ PathsDone
    /\ hist.call.args = [base_path |-> SLASHDATA, date_obj |-> <<2023, 9, 5>>]
    /\ hist.call.out =
          << <<"/", "d", "a", "t", "a", "/", "2", "0", "2", "3", "/", "0", "9", "/", "0", "5", "/">>,
             <<"/", "d", "a", "t", "a", "/", "2", "0", "2", "3", "/", "0", "9", "/", "0", "5", "0", "9", "2", "0", "2", "3", "/">>,
             <<"/", "d", "a", "t", "a", "/", "2", "0", "2", "3", "/", "0", "9", "/", "0", "5">>,
             <<"/", "d", "a", "t", "a", "/", "2", "0", "2", "3", "/", "0", "9", "/", "0", "5", "0", "9", "2", "0", "2", "3">> >>


-----------------------------------------------------------------------------
(* C19: find_existing_remote_path. *)

\* the call of find_existing_remote_path that has ended
FindDone == hist.call.fn = "find_existing_remote_path" /\ hist.call.done

\* candidate i of the date is accepted: its CWD gets through and the server
\* has the directory
Accepted(a, i) ==
    /\ i \in a.up
    /\ ServerResolve(LoginDir, build_possible_paths(RemoteBase, a.date_obj)[i]) \in ServerDirs

\* C19: find_existing_remote_path returns the accepted candidate of the
\* lowest index and probes no candidate after it; it returns None exactly
\* when no candidate is accepted, having probed them all; whether the PWD
\* after the accepted CWD fails makes no difference.
C19_LowestAcceptedCandidate ==
    FindDone =>
        LET a == hist.call.args
            out == hist.call.out
            last == IF out.found = 0 THEN 4 ELSE out.found
        IN
        /\ out.found \in 0..4
        /\ out.found = 0 <=> \A i \in 1..4 : ~Accepted(a, i)
        /\ out.found # 0
              => Accepted(a, out.found) /\ \A j \in 1..(out.found - 1) : ~Accepted(a, j)
        /\ out.probes = [i \in 1..last |-> i]

\* the first candidate of 2023-09-30 does not get through, the second is
\* not on the server, the third is entered and its PWD fails
C19_Witness ==
    /\ FindDone
    /\ hist.call.args = [date_obj |-> D1, up |-> {2, 3, 4}, pwdOk |-> FALSE]
    /\ hist.call.out.found = 3
    /\ hist.call.out.probes = <<1, 2, 3>>


-----------------------------------------------------------------------------
(* C20: the files of a day. *)

\* the name ends with ".txt" in any case and begins with the station id,
\* character by character
TxtOfStation(name, station) ==
    /\ Len(name) >= 4
    /\ name[Len(name) - 3] = "."
    /\ name[Len(name) - 2] \in {"t", "T"}
    /\ name[Len(name) - 1] \in {"x", "X"}
    /\ name[Len(name)] \in {"t", "T"}
    /\ Len(station) <= Len(name)
    /\ \A k \in 1..Len(station) : name[k] = station[k]

\* the places of a thread that has taken up a file
InFile == {"local_check", "xfer_open", "xfer_cb", "xfer_pause", "xfer_write", "xfer_cleanup"}

\* the number of entries of the two result collections
Recorded(r) == Len(r.downloaded) + Len(r.failed)

\* the examples: RTU12_0600.txt and RTU12.TXT match RTU12, other.txt does
\* not, abcfile.txt does not match ABC
C20_Examples ==
    /\ matches_station_file(F0600, RTU12S)
    /\ matches_station_file(FUPPER, RTU12S)
    /\ ~matches_station_file(FOTHER, RTU12S)
    /\ ~matches_station_file(FABC, ABCS)

\* an entry enters a collection only for the file that was taken up, one at
\* a time, and a file is taken up only when it is the listed entry the loop
\* is at and its base name is a .txt of the station; a file that was taken
\* up is recorded when the loop leaves it
OnlyMatchingRecorded(t) ==
    LET r == th[t]
        q == th'[t]
    IN /\ (r.pc \notin {"idle", "returned", "raised"} /\ Recorded(q) > Recorded(r))
            => /\ r.pc \in InFile
               /\ \/ q.downloaded = Append(r.downloaded, r.local_path) /\ q.failed = r.failed
                  \/ /\ q.failed = Append(r.failed, r.remote_path \o <<"/">>
                                                        \o Str[r.local_path.fname])
                     /\ q.downloaded = r.downloaded
       /\ (q.pc = "local_check" /\ r.pc # "local_check")
            => /\ r.pc = "file_loop"
               /\ Str[q.local_path.fname] = Basename(Str[r.files[r.fi]])
               /\ TxtOfStation(Str[q.local_path.fname], Str[r.station])
               /\ q.local_path.station = r.station /\ q.local_path.date = r.dt
       /\ (r.pc \in InFile /\ q.pc \notin InFile) => Recorded(q) = Recorded(r) + 1

\* C20: for each resolved day the files that enter either result
\* collection are exactly the listed entries whose base name ends with .txt
\* in any case and begins with the station id as written: every such entry
\* is taken up and recorded and no other entry is.
C20_ExactlyMatching ==
    [][/\ C20_Examples
       /\ \A t \in Threads :
            (th[t].mode = "prefix" /\ th'[t] # th[t])
                => /\ OnlyMatchingRecorded(t)
                   /\ (th[t].pc = "file_loop"
                        /\ TxtOfStation(Basename(Str[th[t].files[th[t].fi]]),
                                        Str[th[t].station]))
                         => th'[t].pc = "local_check"]_vars

\* C20, amended: as above, for the entries the loop comes to before it
\* reads a cancel signal; the read of a cancel signal at a file boundary
\* leaves the day, and the entries from there on are not taken up.
C20_MatchingUntilCancel ==
    [][/\ C20_Examples
       /\ \A t \in Threads :
            (th[t].mode = "prefix" /\ th'[t] # th[t])
                => /\ OnlyMatchingRecorded(t)
                   /\ (th[t].pc = "file_loop"
                        /\ TxtOfStation(Basename(Str[th[t].files[th[t].fi]]),
                                        Str[th[t].station]))
                         => IF ctl[th[t].srv].cancel \/ gcancel
                            THEN /\ th'[t].pc \notin InFile
                                 /\ Recorded(th'[t]) = Recorded(th[t])
                                 /\ th'[t].pc = "day_loop" => th'[t].di > th[t].di
                            ELSE th'[t].pc = "local_check"]_vars

\* the run of station RTU12 is past 2023-09-30, whose directory lists
\* RTU12_0600.txt, other.txt and RTU12.TXT: the first was transferred, the
\* third was there already, and other.txt is in no collection
C20_Witness ==
    \E t \in Threads :
        /\ th[t].mode = "prefix" /\ th[t].station = IdOf(RTU12S) /\ ~th[t].sawCancel
        /\ th[t].pc = "day_loop" /\ th[t].dates_seen = {D1}
        /\ th[t].nxfer = 1 /\ th[t].failed = <<>>
        /\ th[t].downloaded =
              <<LocalPath(IdOf(DOWNLOADS), IdOf(PERAK), IdOf(RTU12S), D1, IdOf(F0600)),
                LocalPath(IdOf(DOWNLOADS), IdOf(PERAK), IdOf(RTU12S), D1, IdOf(FUPPER))>>


-----------------------------------------------------------------------------
(* C21: the single timestamp. *)

\* the call that decodes a single timestamp has ended
TsDone == hist.call.fn = "single_ts" /\ hist.call.done

\* the year a two-digit year stands for
TsYear(yy) == IF yy < 90 THEN 2000 + yy ELSE 1900 + yy

\* the fields name an instant of the calendar
TsFieldsValid(a) == a.d <= DaysInMonth(TsYear(a.yy), a.m)

\* C21: a single timestamp YYMMDDHHMM with valid fields is decoded with the
\* year 2000+YY when YY < 90 and 1900+YY otherwise; the start and the end of
\* the window passed on are both that instant, so the one day the window
\* holds, and the only one that is resolved, is the day of the timestamp.
C21_SingleInstantWindow ==
    TsDone =>
        LET a == hist.call.args
            out == hist.call.out
            day == <<TsYear(a.yy), a.m, a.d>>
        IN
        /\ out.ok <=> TsFieldsValid(a)
        /\ TsFieldsValid(a)
              => /\ out.start_dt = day /\ out.end_dt = day
                 /\ out.minute = 60 * a.H + a.M
                 /\ out.wanted # <<>>
                 /\ {out.wanted[i][1] : i \in 1..Len(out.wanted)} = {day}

\* 9002282359 is 1990-02-28 23:59
C21_Witness ==
    /\ TsDone
    /\ hist.call.args = [yy |-> 90, m |-> 2, d |-> 28, H |-> 23, M |-> 59]
    /\ hist.call.out.start_dt = <<1990, 2, 28>>
    /\ hist.call.out.end_dt = <<1990, 2, 28>>
    /\ hist.call.out.minute = 1439


-----------------------------------------------------------------------------
(* C22: cancel ends the run. *)

\* the worker of server s is at work inside its try block
AtWork(s) == \E t \in Threads : InRun(th[t]) /\ th[t].srv = s /\ th[t].pc # "spawned"

\* C22: after cancel() on a controller whose run is in progress, and with no
\* later start, the worker reaches running = False in the end, wherever it
\* was at the time of the call: in the pause loop, between two chunks,
\* between files, between days or between stations.
C22_CancelEndsRun ==
    \A s \in Servers : (ctl[s].cancel /\ AtWork(s)) ~> ~ctl[s].running

\* cancel was called while the transfer slept in the pause loop: with pause
\* still set the transfer was given up and the worker is back at the file
\* loop, on its way out
C22_Witness ==
    \E t \in Threads :
        /\ th[t].pc = "file_loop" /\ th[t].srv = "A" /\ th[t].mode = "worker"
        /\ th[t].waited /\ th[t].sawCancel /\ Len(th[t].failed) = 1
        /\ ctl["A"].cancel /\ ctl["A"].pause /\ ctl["A"].running


-----------------------------------------------------------------------------
(* C23: one resolution per day, in the order of the dates. *)

\* C23: within one invocation of download_files_by_prefix every calendar
\* day is resolved, and so listed, at most once, whatever the step and the
\* daily time window are, and the days are taken in strictly ascending
\* order of their dates.
C23_OncePerDayAscending ==
    /\ [][\A t \in Threads :
            (th[t].mode = "prefix" /\ th'[t].nres > th[t].nres)
                => /\ th'[t].nres = th[t].nres + 1
                   /\ th'[t].dt \notin th[t].dates_seen
                   /\ th'[t].dates_seen = th[t].dates_seen \cup {th'[t].dt}
                   /\ \A d \in th[t].dates_seen : DateLE(d, th'[t].dt)]_vars
    /\ [](\A t \in Threads :
            (th[t].mode = "prefix" /\ th[t].pc # "idle")
                => th[t].nres = Cardinality(th[t].dates_seen))

\* the three days of the window were resolved, one resolution each, from a
\* list that names every day twice
C23_Witness ==
    \E t \in Threads :
        /\ th[t].mode = "prefix" /\ th[t].pc = "returned"
        /\ th[t].dates_seen = {D1, D2, D3} /\ th[t].nres = 3
        /\ Len(WantedFrom(th[t].start_dt, th[t].end_dt, th[t].par)) = 6


-----------------------------------------------------------------------------
(* C24: a day that cannot be resolved or listed. *)

\* C24: a day whose directory cannot be resolved, or whose listing fails,
\* adds no entry to the success collection and none to the failed
\* collection, raises nothing and does not stop the later days: the step
\* that resolves and lists a day records nothing and raises nothing; when
\* it gets no file to look at, the loop is at the next datetime or the
\* function has returned with the list at its end; and every entry that is
\* recorded is for the day whose listing is at hand.
C24_FailedDaySkipped ==
    [][\A t \in Threads :
          (th[t].mode = "prefix" /\ th'[t] # th[t])
              => /\ th'[t].nres > th[t].nres
                    => /\ th[t].pc = "day_loop"
                       /\ th'[t].downloaded = th[t].downloaded
                       /\ th'[t].failed = th[t].failed
                       /\ th'[t].pc \in {"file_loop", "day_loop", "returned"}
                       /\ th'[t].pc = "day_loop" => th'[t].di > th[t].di
                       /\ th'[t].pc = "returned"
                             => th'[t].di > Len(WantedFrom(th[t].start_dt, th[t].end_dt,
                                                           th[t].par))
                       /\ th'[t].pc = "file_loop"
                             => /\ th'[t].files # <<>>
                                /\ ServerResolve(LoginDir, th'[t].remote_path) \in ServerDirs
                 /\ (th[t].pc \in InFile
                     /\ Len(th'[t].downloaded) + Len(th'[t].failed)
                            > Len(th[t].downloaded) + Len(th[t].failed))
                       => /\ th[t].local_path.date = th[t].dt
                          /\ th[t].files # <<>>]_vars

\* the invocation for 2023-09-30 to 2023-10-02 returned without a cancel:
\* every day was looked for, none could be resolved or listed, and both
\* collections are empty
C24_Witness ==
    \E t \in Threads :
        /\ th[t].mode = "prefix" /\ th[t].pc = "returned" /\ ~th[t].sawCancel
        /\ th[t].dates_seen = {D1, D2, D3}
        /\ th[t].downloaded = <<>> /\ th[t].failed = <<>>


-----------------------------------------------------------------------------
(* C25: a single timestamp that cannot be decoded. *)

\* a worker whose single timestamp is the malformed one
BadTsRun(r) == r.mode = "worker" /\ r.par.single_ts = TsBad /\ r.pc \notin {"done", "dead"}

\* no connection was attempted for the run with locals r
NoConnection(r) ==
    /\ ~r.sess /\ r.attempt = 0 /\ r.station = 0 /\ r.nres = 0 /\ r.nxfer = 0
    /\ r.failedAt # "connect"
    /\ r.pc \in {"spawned", "st_loop", "w_finally"}

-----------------------------------------------------------------------------
(* C26: the dry run. *)

\* a direct invocation in dry-run mode
DryRun(r) == r.mode = "prefix" /\ r.par.test_mode /\ r.pc # "idle"

\* C26: in dry-run mode no transfer is ever issued: a matching file that is
\* there already is recorded as success and left alone; for one that is not
\* there the placeholder is written at the computed local path and the path
\* is recorded as success, and the remote identifier is recorded as failed
\* only when the placeholder could not be written.
C26_DryRunWritesPlaceholders ==
    /\ [](\A t \in Threads :
            DryRun(th[t]) => th[t].nxfer = 0 /\ th[t].pc \notin (InFile \ {"local_check"}))
    /\ [][\A t \in Threads :
            (DryRun(th[t]) /\ th[t].pc # "returned" /\ th'[t] # th[t])
                => LET r == th[t]
                       q == th'[t]
                       p == r.local_path
                   IN IF r.pc # "local_check"
                      THEN fs' = fs /\ q.downloaded = r.downloaded /\ q.failed = r.failed
                      ELSE IF p \in DOMAIN fs
                      THEN fs' = fs /\ q.downloaded = Append(r.downloaded, p)
                           /\ q.failed = r.failed
                      ELSE \/ /\ DOMAIN fs' = DOMAIN fs \cup {p}
                              /\ fs'[p] = DummyData
                              /\ \A o \in DOMAIN fs : fs'[o] = fs[o]
                              /\ q.downloaded = Append(r.downloaded, p)
                              /\ q.failed = r.failed
                           \/ /\ fs' = fs
                              /\ q.downloaded = r.downloaded
                              /\ q.failed = Append(r.failed, r.remote_path \o <<"/">>
                                                                \o Str[p.fname])]_vars

\* the dry run over 2023-09-30 and 2023-10-01 returned: one file was there
\* already, one placeholder was written and one could not be written
C26_Witness ==
    \E t \in Threads :
        /\ DryRun(th[t]) /\ th[t].pc = "returned" /\ ~th[t].sawCancel
        /\ Len(th[t].downloaded) = 2 /\ Len(th[t].failed) = 1 /\ th[t].nxfer = 0
        /\ th[t].downloaded[2] = OldFile
        /\ fs[th[t].downloaded[1]] = DummyData


-----------------------------------------------------------------------------
(* C27: the control connection is closed on every way out. *)

\* a direct invocation of download_files_by_prefix is over
Left(r) == r.mode = "prefix" /\ r.pc \in {"returned", "raised"}

\* C27: an invocation that established a control connection has closed it
\* when control leaves the function, whichever way it leaves, and it closes
\* it once, in the step that returns the two lists.
C27_ClosedOnEveryExit ==
    /\ [](\A t \in Threads : Left(th[t]) => ~th[t].sess)
    /\ [][\A t \in Threads :
            (th[t].mode = "prefix" /\ th[t].sess /\ ~th'[t].sess)
                => th'[t].pc = "returned" /\ th'[t].mode = "prefix"]_vars

\* the connection is closed once on every way out of an invocation whose
\* window could be built
C27_ClosedWhenWindowBuilt ==
    /\ [](\A t \in Threads :
            (Left(th[t]) /\ ValidClock(th[t].par)) => ~th[t].sess)
    /\ [][\A t \in Threads :
            (th[t].mode = "prefix" /\ th[t].sess /\ ~th'[t].sess)
                => th'[t].pc = "returned" /\ th'[t].mode = "prefix"]_vars

\* the invocation with hour 24 left the function with its connection open
C27_LeftOpen ==
    \E t \in Threads : Left(th[t]) /\ th[t].pc = "raised" /\ th[t].sess


-----------------------------------------------------------------------------
(* C28: the resolution of a day and the working directory. *)

\* the candidates a resolution of `day` can give from working directory cwd,
\* over every way the probes can fare on the network (0: none)
ResolvedFrom(cwd, base_path, day) ==
    {find_existing_remote_path(cwd, build_possible_paths(base_path, day), up, pwdOk).found
       : up \in SUBSET (1..4), pwdOk \in BOOLEAN}

\* the day loop is about to take up a day it has not seen
NewDay(r) ==
    /\ r.mode = "prefix" /\ r.pc = "day_loop" /\ r.di <= Len(Wanted(r))
    /\ Wanted(r)[r.di][1] \notin r.dates_seen

\* C28: whatever the base path, what the resolution of a day can give does
\* not depend on the working directory the earlier probes, listings and
\* transfers left: it is what it gives from the directory of the login.
C28_SameFromAnyDirectory ==
    \A t \in Threads :
        NewDay(th[t])
            => ResolvedFrom(th[t].rcwd, th[t].par.remote_dir_base, Wanted(th[t])[th[t].di][1])
               = ResolvedFrom(LoginDir, th[t].par.remote_dir_base, Wanted(th[t])[th[t].di][1])

\* with a base path that starts at the root the working directory has no
\* part in the resolution
C28_AbsoluteBaseStable ==
    \A t \in Threads :
        (NewDay(th[t]) /\ StartsWith(th[t].par.remote_dir_base, <<"/">>))
            => ResolvedFrom(th[t].rcwd, th[t].par.remote_dir_base, Wanted(th[t])[th[t].di][1])
               = ResolvedFrom(LoginDir, th[t].par.remote_dir_base, Wanted(th[t])[th[t].di][1])

\* with base path "data" the first day was resolved to its folder, and the
\* second day, whose folder the server has, can no longer be
C28_SecondDayLost ==
    \E t \in Threads :
        /\ NewDay(th[t]) /\ th[t].par.remote_dir_base = Tail(RemoteBase)
        /\ th[t].dates_seen = {D1} /\ th[t].rcwd = DirD1
        /\ Wanted(th[t])[th[t].di][1] = D2
        /\ ResolvedFrom(th[t].rcwd, Tail(RemoteBase), D2) = {0}
        /\ 4 \in ResolvedFrom(LoginDir, Tail(RemoteBase), D2)


-----------------------------------------------------------------------------
(* C29: the scheduler loop after stop and start. *)

\* the loop threads that are alive
AliveLoops == {i \in 1..Len(hist.sched.loops) : hist.sched.loops[i] # "exited"}

\* C29: never more than one loop thread is alive, and when auto-midnight is
\* enabled and the scheduler call that returned last is a start, exactly
\* one loop thread is alive and it is not about to exit: the stop event it
\* reads is clear.
C29_LastStartLeavesOneLoop ==
    /\ Cardinality(AliveLoops) <= 1
    /\ (hist.sched.auto_midnight_enabled /\ hist.sched.last = "start")
          => Cardinality(AliveLoops) = 1 /\ ~hist.sched.stop_event

\* what holds: never more than one loop thread is alive, and a start that
\* finds no loop thread alive leaves one with the stop event clear
C29_AtMostOneLoop ==
    /\ [](Cardinality(AliveLoops) <= 1)
    /\ [][(hist'.sched.last = "start" /\ hist'.sched # hist.sched /\ AliveLoops = {}
            /\ hist'.sched.loops # hist.sched.loops)
              => /\ Cardinality(AliveLoops') = 1
                 /\ ~hist'.sched.stop_event]_vars

\* auto-midnight is enabled, the last call was a start, and no loop is left:
\* the start came while the stopped loop was still asleep, and the loop has
\* since read the stop event
C29_NoLoopAfterStart ==
    /\ hist.sched.auto_midnight_enabled /\ hist.sched.last = "start"
    /\ hist.sched.stop_event /\ AliveLoops = {} /\ Len(hist.sched.loops) = 1


-----------------------------------------------------------------------------
(* C30: the running workers and the registry. *)

\* the controller objects that have a worker thread
WithWorker == {c \in 1..Len(hist.reg.objs) : hist.reg.objs[c].threads > 0}

\* object c is the one registered for the server it works for
Registered(c) ==
    \E idx \in DOMAIN hist.reg.controllers :
        hist.reg.controllers[idx] = c /\ hist.reg.servers[idx] = hist.reg.objs[c].srv

\* C30: after any sequence of add, remove, reload, save and start, the
\* controller of every worker that runs is the one registered for its
\* server, so that the buttons of the server reach it, and no server has
\* two workers.
C30_RunningWorkerRegistered ==
    /\ \A c \in WithWorker : Registered(c)
    /\ \A c, d \in WithWorker : hist.reg.objs[c].srv = hist.reg.objs[d].srv => c = d

\* what holds: the running flag of the registered controller guards the
\* start, and a button acts on the registered controller only
C30_RegisteredControllerGuards ==
    [][\A c \in 1..Len(hist.reg.objs) :
         /\ (hist'.reg.objs[c].threads > hist.reg.objs[c].threads)
               => ~hist.reg.objs[c].running /\ Registered(c)
         /\ (hist'.reg.objs[c].cancel # hist.reg.objs[c].cancel
               \/ hist'.reg.objs[c].pause # hist.reg.objs[c].pause)
               => \E idx \in DOMAIN hist.reg.controllers : hist.reg.controllers[idx] = c]_vars

\* the servers were reloaded while a worker ran: its controller is out of
\* the registry, cancel went to the new controller, and a second worker
\* runs for the same server
C30_WorkerOutOfReach ==
    \E c, d \in WithWorker :
        /\ c # d /\ hist.reg.objs[c].srv = hist.reg.objs[d].srv
        /\ hist.reg.objs[c].running /\ hist.reg.objs[d].running
        /\ ~Registered(c) /\ Registered(d)
        /\ ~hist.reg.objs[c].cancel


-----------------------------------------------------------------------------
(* C31: a lost connection and the days of the window. *)

\* the local paths of the files of `day` that the server holds for the
\* station of r, found from the directory of the login
DataOf(r, day) ==
    MatchingLocal(r.station, [r.par EXCEPT !.start_dt = day, !.end_dt = day])

\* r has an entry for a file of `day` in one of its two collections
Contributes(r, day) ==
    \E i \in 1..Len(r.reached) :
        /\ r.reached[i].local.date = day
        /\ \/ \E j \in 1..Len(r.downloaded) : r.downloaded[j] = r.reached[i].local
           \/ \E j \in 1..Len(r.failed) : r.failed[j] = r.reached[i].remote

\* C31: an invocation that returns without having been cancelled has, for
\* every day it took up whose remote directory exists and holds matching
\* files that are not local, at least one entry in the success or the
\* failed collection: whatever the connection does, such a day is not
\* passed over in silence.
C31_NoDaySilentlySkipped ==
    \A t \in Threads :
        (ReturnedUncancelled(th[t]) /\ StartsWith(th[t].par.remote_dir_base, <<"/">>))
            => \A day \in th[t].dates_seen :
                  (DataOf(th[t], day) \ DOMAIN fs # {}) => Contributes(th[t], day)

\* the invocation over 2023-09-30 to 2023-10-02 returned two empty lists
\* although the server holds files of the station for two of the days
C31_AllDaysLost ==
    \E t \in Threads :
        /\ ReturnedUncancelled(th[t]) /\ th[t].dates_seen = {D1, D2, D3}
        /\ th[t].downloaded = <<>> /\ th[t].failed = <<>>
        /\ DataOf(th[t], D1) \ DOMAIN fs # {} /\ DataOf(th[t], D2) \ DOMAIN fs # {}


-----------------------------------------------------------------------------
(* C32: what the paths of the success collection hold. *)

\* a direct invocation that is not a dry run has returned
RealRunReturned(r) == r.mode = "prefix" /\ r.pc = "returned" /\ ~r.par.test_mode

\* C32: when an invocation that is not a dry run returns, every local path
\* of its success collection holds the complete content of the remote file,
\* whatever earlier runs, dry runs included, left in the local directory.
C32_SuccessHoldsFullContent ==
    \A t \in Threads :
        RealRunReturned(th[t])
            => \A i \in 1..Len(th[t].downloaded) :
                  /\ th[t].downloaded[i] \in DOMAIN fs
                  /\ fs[th[t].downloaded[i]] = FullData(th[t].downloaded[i].fname)

\* what holds: a path a run that is not a dry run adds to the success
\* collection after a transfer holds the complete content at that moment
C32_TransferredIsComplete ==
    [][\A t \in Threads :
         (th[t].mode = "prefix" /\ ~th[t].par.test_mode /\ th[t].pc \in InFile
          /\ th[t].pc # "local_check"
          /\ Len(th'[t].downloaded) > Len(th[t].downloaded))
            => LET p == th'[t].downloaded[Len(th'[t].downloaded)]
               IN p \in DOMAIN fs' /\ fs'[p] = FullData(p.fname)]_vars

\* a run that is not a dry run returned a path as success that holds the
\* placeholder an earlier dry run wrote
C32_PlaceholderAsSuccess ==
    \E t \in Threads :
        /\ RealRunReturned(th[t]) /\ ~th[t].sawCancel /\ th[t].nxfer = 0
        /\ \E i \in 1..Len(th[t].downloaded) : fs[th[t].downloaded[i]] = DummyData


-----------------------------------------------------------------------------
(* C33: the station loop and the two cancel signals. *)

\* the worker is at the head of its station loop with a station left
AtStation(r) == r.mode = "worker" /\ r.pc = "st_loop" /\ r.si <= Len(r.stations)

\* C33: when the cancel signal of the server or the process-wide cancel
\* flag is set, the worker that comes to the head of its station loop
\* establishes no connection for the station that is next.
C33_NoConnectAfterCancel ==
    [][\A t \in Threads :
         (AtStation(th[t]) /\ (ctl[th[t].srv].cancel \/ gcancel)) => ~th'[t].sess]_vars

\* what holds: with the cancel signal of the server set the loop is left
\* without a connection, and with the flag alone a connection that is made
\* is closed again before any file is taken up
C33_ServerCancelStopsLoop ==
    /\ [][\A t \in Threads :
            (AtStation(th[t]) /\ ctl[th[t].srv].cancel /\ th'[t] # th[t])
                => ~th'[t].sess /\ th'[t].pc \notin {"st_loop", "day_loop"}]_vars
    /\ [][\A t \in Threads :
            (th[t].mode = "worker" /\ th[t].pc = "day_loop" /\ gcancel
             /\ th'[t] # th[t])
                => ~th'[t].sess /\ th'[t].nres = th[t].nres]_vars

\* the flag was set while the first station was worked on, and the worker
\* has connected for the second
C33_ConnectedUnderFlag ==
    \E t \in Threads :
        /\ th[t].mode = "worker" /\ th[t].si = 2 /\ th[t].pc = "day_loop"
        /\ th[t].sess /\ gcancel /\ th[t].nres = 0

=========================================================================
